---- MODULE Spec2Model ----
(***************************************************************************)
(* Email_Checker: the request pipeline of streamEmailHandler (main.go).    *)
(* One request is modelled from the moment the writer goroutine has been   *)
(* started: the handler, the writer, the five analysis tasks and the       *)
(* goroutine that closes resultsChan are separate processes that meet on   *)
(* the two unbuffered channels resultsChan and eventChan.                  *)
(***************************************************************************)
EXTENDS Integers, Sequences, FiniteSets, TLC

\* ------------------------------------------------------------------ bounds
\* longest list of phone numbers extractPhoneNumbersFromEmail returns
MaxPhones == 2

\* ------------------------------------------------------- static registry
\* scoreSettings.go: AllChecks (Name, Impact), in source order
AllChecks ==
  << [Name |-> "DomainExactMatch",    Impact |-> 30],
     [Name |-> "DomainNoSimilarity",  Impact |-> 17],
     [Name |-> "DomainImpersonation", Impact |-> 0],
     [Name |-> "freeMailMatch",       Impact |-> 12],
     [Name |-> "CompanyIdentified",   Impact |-> 3],
     [Name |-> "CompanyVerified",     Impact |-> 20],
     [Name |-> "RealismCheck",        Impact |-> 25],
     [Name |-> "CorrectPhoneNumber",  Impact |-> 4],
     [Name |-> "MaliciousURLFound",   Impact |-> 10],
     [Name |-> "ExecutableFileFound", Impact |-> 3] >>

\* the loop "for _, c := range AllChecks { if c.Name == name { ...; break } }":
\* the impact of the first check of that name, 0 (the zero value) if none
RECURSIVE ImpactFrom(_, _)
ImpactFrom(i, name) ==
  IF i > Len(AllChecks) THEN 0
  ELSE IF AllChecks[i].Name = name THEN AllChecks[i].Impact
  ELSE ImpactFrom(i + 1, name)

ImpactOf(name) == ImpactFrom(1, name)

\* scoreSettings.go: MaxScore()
RECURSIVE MaxScoreFrom(_, _, _)
MaxScoreFrom(i, maxDomainScore, otherPositiveScores) ==
  IF i > Len(AllChecks) THEN maxDomainScore + otherPositiveScores
  ELSE LET c == AllChecks[i] IN
    IF c.Name \in {"DomainExactMatch", "DomainNoSimilarity", "freeMailMatch"}
    THEN MaxScoreFrom(i + 1,
                      IF c.Impact > maxDomainScore THEN c.Impact ELSE maxDomainScore,
                      otherPositiveScores)
    ELSE MaxScoreFrom(i + 1, maxDomainScore,
                      IF c.Impact > 0 THEN otherPositiveScores + c.Impact
                                      ELSE otherPositiveScores)

MaxScore == MaxScoreFrom(1, 0, 0)

\* main.go:116
isURLScanEnabled == FALSE

\* main.go:257
numChecks == 5

\* ------------------------------------------------------------- payloads
Tasks == {"domain", "url", "exec", "text", "rendered"}

EventOf(t) ==
  CASE t = "domain"   -> "domainAnalysis"
    [] t = "url"      -> "urlAnalysis"
    [] t = "exec"     -> "executableAnalysis"
    [] t = "text"     -> "textAnalysis"
    [] t = "rendered" -> "renderedAnalysis"

EventNames == {EventOf(t) : t \in Tasks}

\* a key that is not in the map / a nil interface value
Nil == [type |-> "nil"]

DomainAnalysisResult(status, impact) ==
  [type |-> "DomainAnalysisResult", Status |-> status, ScoreImpact |-> impact]

URLAnalysisResult(status, count, impact) ==
  [type |-> "URLAnalysisResult", Status |-> status, MaliciousCount |-> count,
   ScoreImpact |-> impact]

ExecutableAnalysisResult(found, impact) ==
  [type |-> "ExecutableAnalysisResult", Found |-> found, ScoreImpact |-> impact]

\* the zero value of ContentAnalysisResult
ZeroContent ==
  [type |-> "ContentAnalysisResult",
   Error |-> "",
   CompanyIdentification |-> [Identified |-> FALSE, ScoreImpact |-> 0],
   CompanyVerification   |-> [Verified |-> FALSE, ScoreImpact |-> 0],
   RealismAnalysis       |-> [IsRealistic |-> FALSE, ScoreImpact |-> 0],
   ContactMethodAnalysis |-> [ScoreImpact |-> 0]]

ErrorContent(msg) == [ZeroContent EXCEPT !.Error = msg]

\* main.go: populateContentAnalysis
populateContentAnalysis(result, whoResult, verified) ==
  LET r1 == [result EXCEPT
               !.CompanyIdentification.Identified = whoResult.OrganizationFound]
      r2 == IF whoResult.OrganizationFound
            THEN [r1 EXCEPT
                    !.CompanyIdentification.ScoreImpact = ImpactOf("CompanyIdentified"),
                    !.CompanyVerification.Verified = verified,
                    !.CompanyVerification.ScoreImpact =
                        IF verified THEN ImpactOf("CompanyVerified") ELSE @]
            ELSE r1
  IN [r2 EXCEPT
        !.RealismAnalysis.IsRealistic = whoResult.Realistic,
        !.RealismAnalysis.ScoreImpact =
            IF whoResult.Realistic THEN ImpactOf("RealismCheck") ELSE @]

\* the lists of extracted phone numbers, each number given by whether its
\* search results name the identified organisation (and no banned word)
RECURSIVE SeqsUpTo(_, _)
SeqsUpTo(S, n) ==
  IF n = 0 THEN {<< >>}
  ELSE LET shorter == SeqsUpTo(S, n - 1) IN
       shorter \cup {Append(s, x) : s \in {q \in shorter : Len(q) = n - 1}, x \in S}

PhoneLists == SeqsUpTo(BOOLEAN, MaxPhones)

\* main.go: the phone-number loop of performTextAnalysis /
\* performRenderedAnalysis; phones[i] is isValid of the i-th number, the
\* result is ContactMethodAnalysis.ScoreImpact
\* a slip: every valid number is credited
RECURSIVE validatePhones_EveryNumber(_, _, _, _)
validatePhones_EveryNumber(phones, i, scoreImpactApplied, scoreImpact) ==
  IF i > Len(phones) THEN scoreImpact
  ELSE IF phones[i]
       THEN validatePhones_EveryNumber(phones, i + 1, TRUE,
                                       scoreImpact + ImpactOf("CorrectPhoneNumber"))
       ELSE validatePhones_EveryNumber(phones, i + 1, scoreImpactApplied, scoreImpact)

RECURSIVE validatePhones(_, _, _, _)
validatePhones(phones, i, scoreImpactApplied, scoreImpact) ==
  IF i > Len(phones) THEN scoreImpact
  ELSE LET isValid == phones[i] IN
       IF isValid /\ ~scoreImpactApplied
       THEN validatePhones(phones, i + 1, TRUE, ImpactOf("CorrectPhoneNumber"))
       ELSE validatePhones(phones, i + 1, scoreImpactApplied, scoreImpact)

ContactMethodAnalysis(phones) ==
  IF Len(phones) = 0
  THEN [ScoreImpact |-> ImpactOf("CorrectPhoneNumber")]
  ELSE [ScoreImpact |-> validatePhones(phones, 1, FALSE, 0)]

\* the result of a content task whose content-judgment call succeeded
ContentResult(whoResult, verified, phones) ==
  [populateContentAnalysis(ZeroContent, whoResult, verified)
     EXCEPT !.ContactMethodAnalysis = ContactMethodAnalysis(phones)]

\* what the outside world answers for the text (or the screenshot) of the
\* mails a request is run on: the content judgment (EmailAnalysis), whether
\* verifyCompany finds the organisation, and the extracted phone numbers.
\* Nothing recognised and no number; a verified organisation with a number
\* of its own; an unverified organisation with a number that is not its own
ContentCases ==
  { [whoResult |-> [OrganizationFound |-> FALSE, Realistic |-> FALSE],
     verified |-> FALSE, phones |-> << >>],
    [whoResult |-> [OrganizationFound |-> TRUE, Realistic |-> TRUE],
     verified |-> TRUE, phones |-> << TRUE >>],
    [whoResult |-> [OrganizationFound |-> TRUE, Realistic |-> TRUE],
     verified |-> FALSE, phones |-> << FALSE >>] }

\* ------------------------------------------------------ final aggregation
\* ScoreResult; a percentage (float64(final) / maxScoreVal) * 100 is kept as
\* the exact fraction num/den
ZeroScores ==
  [BaseScore |-> 0, FinalScoreNormal |-> 0, FinalScoreRendered |-> 0,
   MaxPossibleScore |-> 0,
   NormalPercentage |-> [num |-> 0, den |-> 1],
   RenderedPercentage |-> [num |-> 0, den |-> 1]]

\* the type assertion data[key].(T): the value and ok
TypeAssertion(data, key, type) ==
  IF data[key].type = type THEN [ok |-> TRUE, v |-> data[key]]
                           ELSE [ok |-> FALSE, v |-> Nil]

ContentSum(c) ==
  c.CompanyIdentification.ScoreImpact + c.CompanyVerification.ScoreImpact
    + c.RealismAnalysis.ScoreImpact + c.ContactMethodAnalysis.ScoreImpact

\* a slip: the rendered total is built from the text result
calculateFinalScores_TextTwice(data) ==
  LET d  == TypeAssertion(data, "domainAnalysis", "DomainAnalysisResult")
      t  == TypeAssertion(data, "textAnalysis", "ContentAnalysisResult")
      e  == TypeAssertion(data, "executableAnalysis", "ExecutableAnalysisResult")
      u  == TypeAssertion(data, "urlAnalysis", "URLAnalysisResult")
      textData  == IF t.ok THEN t.v ELSE ZeroContent
      baseScore == (IF e.ok THEN e.v.ScoreImpact ELSE 0)
                     + (IF d.ok THEN d.v.ScoreImpact ELSE 0)
                     + (IF u.ok THEN u.v.ScoreImpact ELSE 0)
      final == baseScore + ContentSum(textData)
  IN [BaseScore |-> baseScore,
      FinalScoreNormal |-> final,
      FinalScoreRendered |-> final,
      MaxPossibleScore |-> MaxScore,
      NormalPercentage |-> [num |-> final * 100, den |-> MaxScore],
      RenderedPercentage |-> [num |-> final * 100, den |-> MaxScore]]

\* main.go: calculateFinalScores
calculateFinalScores(data) ==
  LET d  == TypeAssertion(data, "domainAnalysis", "DomainAnalysisResult")
      t  == TypeAssertion(data, "textAnalysis", "ContentAnalysisResult")
      r  == TypeAssertion(data, "renderedAnalysis", "ContentAnalysisResult")
      e  == TypeAssertion(data, "executableAnalysis", "ExecutableAnalysisResult")
      u  == TypeAssertion(data, "urlAnalysis", "URLAnalysisResult")
      domainData   == IF d.ok THEN d.v ELSE DomainAnalysisResult("", 0)
      textData     == IF t.ok THEN t.v ELSE ZeroContent
      renderedData == IF r.ok THEN r.v ELSE ZeroContent
      base0 == IF e.ok THEN e.v.ScoreImpact ELSE 0
      base1 == base0 + domainData.ScoreImpact
      baseScore == IF u.ok THEN base1 + u.v.ScoreImpact ELSE base1
      finalScoreNormal   == baseScore + ContentSum(textData)
      finalScoreRendered == baseScore + ContentSum(renderedData)
      maxScoreVal == MaxScore
  IN [BaseScore |-> baseScore,
      FinalScoreNormal |-> finalScoreNormal,
      FinalScoreRendered |-> finalScoreRendered,
      MaxPossibleScore |-> maxScoreVal,
      NormalPercentage |->
        IF maxScoreVal > 0 THEN [num |-> finalScoreNormal * 100, den |-> maxScoreVal]
                           ELSE [num |-> 0, den |-> 1],
      RenderedPercentage |->
        IF maxScoreVal > 0 THEN [num |-> finalScoreRendered * 100, den |-> maxScoreVal]
                           ELSE [num |-> 0, den |-> 1]]

\* ---------------------------------------------------------------- state
VARIABLES
  hpc,           \* where streamEmailHandler is
  wpc,           \* where the writer goroutine is
  wev,           \* the event the writer took from eventChan and is writing
  cpc,           \* where the goroutine "analysisWg.Wait(); close(resultsChan)" is
  tpc,           \* where each analysis task is
  tres,          \* the CheckResult payload each task built (Nil: none)
  tfail,         \* what went wrong inside each task ("none" if nothing)
  analysisWg,    \* the counter of analysisWg
  resultsClosed, \* resultsChan has been closed
  eventClosed,   \* eventChan has been closed
  hres,          \* the result the handler received and has yet to forward
  allCheckData,  \* the handler's map eventName -> payload
  scores,        \* the ScoreResult the handler computed
  out,           \* the lines written to the http.ResponseWriter, in order
  recvLog,       \* the results in the order the handler received them
  cancelled,     \* r.Context() is done (the caller went away)
  sandbox        \* the request's sandbox directory: "none", "exists", "removed"

\* what lives outside one request
VARIABLES
  Email,           \* the package-level variable Email that parseEmail fills
  rq,              \* the requests being served side by side: where each is and
                   \* what its tasks were given
  upc,             \* where performURLAnalysis is, with the scan switched on
  uniqueURLs,      \* the candidate URLs not yet resolved
  finalUniqueURLs, \* the final URLs they resolved to
  gpc,             \* where the scan goroutine of each final URL is
  verdictsChan,    \* the buffered channel of verdicts
  urlCtxDone,      \* the URL task's own context is done (deadline or cancel())
  call,            \* a call of a function taken on its own: name and arguments
  ret              \* what that call returned

globalVars == << Email, rq >>

urlVars == << upc, uniqueURLs, finalUniqueURLs, gpc, verdictsChan, urlCtxDone >>

callVars == << call, ret >>

outside == << globalVars, urlVars, callVars >>

requestVars ==
  << hpc, wpc, wev, cpc, tpc, tres, tfail, analysisWg, resultsClosed,
     eventClosed, hres, allCheckData, scores, out, recvLog, cancelled,
     sandbox >>

vars == << requestVars, outside >>

\* the candidate URLs of a message and the final URLs they can redirect to
URLs == {"a", "b"}

FinalURLs == {"x", "y"}

NoCall == [fn |-> ""]

\* a final URL no scan goroutine was started for
NoScan == [pc |-> "none", r |-> Nil]

\* nothing outside the request is in use
GlobalInit ==
  /\ Email = [Domain |-> "", Text |-> ""]
  /\ rq = << >>

URLInit ==
  /\ upc = "off"
  /\ uniqueURLs = {}
  /\ finalUniqueURLs = {}
  /\ gpc = [u \in FinalURLs |-> NoScan]
  /\ verdictsChan = << >>
  /\ urlCtxDone = FALSE

CallInit ==
  /\ call = NoCall
  /\ ret = NoCall

OutsideInit == GlobalInit /\ URLInit /\ CallInit

CheckResult(name, payload) == [EventName |-> name, Payload |-> payload]

NoEvent == CheckResult("", Nil)

\* state once the writer goroutine has been started (main.go:218-241)
RequestInit ==
  /\ hpc = "sendMaxScore"
  /\ wpc = "recv"
  /\ wev = NoEvent
  /\ cpc = "idle"
  /\ tpc = [t \in Tasks |-> "idle"]
  /\ tres = [t \in Tasks |-> Nil]
  /\ tfail = [t \in Tasks |-> "none"]
  /\ analysisWg = 0
  /\ resultsClosed = FALSE
  /\ eventClosed = FALSE
  /\ hres = NoEvent
  /\ allCheckData = [n \in EventNames |-> Nil]
  /\ scores = ZeroScores
  /\ out = << >>
  /\ recvLog = << >>
  /\ cancelled = FALSE
  /\ sandbox = "exists"

Init == RequestInit /\ OutsideInit

\* one Fprintf on the http.ResponseWriter: who wrote it, which of the two
\* lines of an event's frame it is, and the event
Written(by, part, ev) == [by |-> by, part |-> part, ev |-> ev]

Line(part, ev) == Written("writer", part, ev)

\* ------------------------------------------------------------ the handler
\* a slip: the handler goes on to the corpus without sending maxScore
HandlerSendMaxScore_NotSent ==
  /\ hpc = "sendMaxScore"
  /\ hpc' = "openDB"
  /\ UNCHANGED << wpc, wev, cpc, tpc, tres, tfail, analysisWg, resultsClosed,
                  eventClosed, hres, allCheckData, scores, out, recvLog,
                  cancelled, sandbox >>
  /\ UNCHANGED outside

\* main.go:243-246  eventChan <- maxScore, taken by the writer
HandlerSendMaxScore ==
  /\ hpc = "sendMaxScore" /\ wpc = "recv" /\ ~eventClosed
  /\ wev' = CheckResult("maxScore", [type |-> "maxScore", maxScore |-> MaxScore])
  /\ wpc' = "header"
  /\ hpc' = "openDB"
  /\ UNCHANGED << cpc, tpc, tres, tfail, analysisWg, resultsClosed, eventClosed,
                  hres, allCheckData, scores, out, recvLog, cancelled, sandbox >>
  /\ UNCHANGED outside

\* main.go:199-200  "defer os.RemoveAll(sandboxDir)" runs as the handler
\* returns
RemoveSandbox == sandbox' = "removed"

\* main.go:248-254  sql.Open; on failure close(eventChan) and return
HandlerOpenDB ==
  /\ hpc = "openDB"
  /\ \E ok \in BOOLEAN :
       IF ok THEN /\ hpc' = "launch"
                  /\ UNCHANGED << eventClosed, sandbox >>
             ELSE /\ hpc' = "returnedEarly"
                  /\ eventClosed' = TRUE
                  /\ RemoveSandbox
  /\ UNCHANGED << wpc, wev, cpc, tpc, tres, tfail, analysisWg, resultsClosed,
                  hres, allCheckData, scores, out, recvLog, cancelled >>
  /\ UNCHANGED outside

\* main.go:256-276  analysisWg.Add(numChecks) and the six go statements
HandlerLaunch ==
  /\ hpc = "launch"
  /\ analysisWg' = analysisWg + numChecks
  /\ tpc' = [t \in Tasks |-> "run"]
  /\ cpc' = "wait"
  /\ hpc' = "recv"
  /\ UNCHANGED << wpc, wev, tres, tfail, resultsClosed, eventClosed, hres,
                  allCheckData, scores, out, recvLog, cancelled, sandbox >>
  /\ UNCHANGED outside

\* a slip: the map is made anew inside the loop, so it keeps the last result
HandlerReceive_MapInLoop(result) ==
  /\ hpc = "recv" /\ ~resultsClosed
  /\ allCheckData' = [n \in EventNames |->
                        IF n = result.EventName THEN result.Payload ELSE Nil]
  /\ hres' = result
  /\ recvLog' = Append(recvLog, result)
  /\ hpc' = "forward"

\* main.go:279-280  one iteration of "for result := range resultsChan": the
\* handler's half of the meeting on the unbuffered resultsChan; the map entry
\* is stored
HandlerReceive(result) ==
  /\ hpc = "recv" /\ ~resultsClosed
  /\ allCheckData' = [allCheckData EXCEPT ![result.EventName] = result.Payload]
  /\ hres' = result
  /\ recvLog' = Append(recvLog, result)
  /\ hpc' = "forward"

\* main.go:281  eventChan <- result, taken by the writer
HandlerForward ==
  /\ hpc = "forward" /\ wpc = "recv" /\ ~eventClosed
  /\ wev' = hres
  /\ wpc' = "header"
  /\ hres' = NoEvent
  /\ hpc' = "recv"
  /\ UNCHANGED << cpc, tpc, tres, tfail, analysisWg, resultsClosed, eventClosed,
                  allCheckData, scores, out, recvLog, cancelled, sandbox >>
  /\ UNCHANGED outside

\* main.go:279,284  the range loop ends on the closed channel; the scores
\* are computed
HandlerCalculate ==
  /\ hpc = "recv" /\ resultsClosed
  /\ scores' = calculateFinalScores(allCheckData)
  /\ hpc' = "sendFinal"
  /\ UNCHANGED << wpc, wev, cpc, tpc, tres, tfail, analysisWg, resultsClosed,
                  eventClosed, hres, allCheckData, out, recvLog, cancelled, sandbox >>
  /\ UNCHANGED outside

\* a slip: the handler prints the closing event on the response itself
HandlerSendFinal_Direct ==
  /\ hpc = "sendFinal"
  /\ out' = out \o << Written("handler", "event", CheckResult("finalScores", scores)),
                      Written("handler", "data", CheckResult("finalScores", scores)) >>
  /\ hpc' = "closeEvents"
  /\ UNCHANGED << wpc, wev, cpc, tpc, tres, tfail, analysisWg, resultsClosed,
                  eventClosed, hres, allCheckData, scores, recvLog, cancelled, sandbox >>
  /\ UNCHANGED outside

\* main.go:285  eventChan <- finalScores, taken by the writer
HandlerSendFinal ==
  /\ hpc = "sendFinal" /\ wpc = "recv" /\ ~eventClosed
  /\ wev' = CheckResult("finalScores", scores)
  /\ wpc' = "header"
  /\ hpc' = "closeEvents"
  /\ UNCHANGED << cpc, tpc, tres, tfail, analysisWg, resultsClosed, eventClosed,
                  hres, allCheckData, scores, out, recvLog, cancelled, sandbox >>
  /\ UNCHANGED outside

\* main.go:287  close(eventChan)
HandlerCloseEvents ==
  /\ hpc = "closeEvents"
  /\ eventClosed' = TRUE
  /\ hpc' = "waitWriter"
  /\ UNCHANGED << wpc, wev, cpc, tpc, tres, tfail, analysisWg, resultsClosed,
                  hres, allCheckData, scores, out, recvLog, cancelled, sandbox >>
  /\ UNCHANGED outside

\* main.go:290-293  writerWg.Wait() and return
HandlerWaitWriter ==
  /\ hpc = "waitWriter" /\ wpc = "done"
  /\ hpc' = "returned"
  /\ RemoveSandbox
  /\ UNCHANGED << wpc, wev, cpc, tpc, tres, tfail, analysisWg, resultsClosed,
                  eventClosed, hres, allCheckData, scores, out, recvLog, cancelled >>
  /\ UNCHANGED outside

\* ------------------------------------------------------------- the writer
\* main.go:232-237  json.Marshal, then the "event: <name>" line
WriterHeader ==
  /\ wpc = "header"
  /\ out' = Append(out, Line("event", wev))
  /\ wpc' = "data"
  /\ UNCHANGED << hpc, wev, cpc, tpc, tres, tfail, analysisWg, resultsClosed,
                  eventClosed, hres, allCheckData, scores, recvLog, cancelled, sandbox >>
  /\ UNCHANGED outside

\* main.go:238-239  the "data: <json>" line and the flush
WriterData ==
  /\ wpc = "data"
  /\ out' = Append(out, Line("data", wev))
  /\ wev' = NoEvent
  /\ wpc' = "recv"
  /\ UNCHANGED << hpc, cpc, tpc, tres, tfail, analysisWg, resultsClosed,
                  eventClosed, hres, allCheckData, scores, recvLog, cancelled, sandbox >>
  /\ UNCHANGED outside

\* main.go:229-231  the range over eventChan ends; writerWg.Done()
WriterExit ==
  /\ wpc = "recv" /\ eventClosed
  /\ wpc' = "done"
  /\ UNCHANGED << hpc, wev, cpc, tpc, tres, tfail, analysisWg, resultsClosed,
                  eventClosed, hres, allCheckData, scores, out, recvLog, cancelled, sandbox >>
  /\ UNCHANGED outside

\* a slip: resultsChan is closed without waiting for the tasks
CloseResults_NoWait ==
  /\ cpc = "wait"
  /\ resultsClosed' = TRUE
  /\ cpc' = "done"
  /\ UNCHANGED << hpc, wpc, wev, tpc, tres, tfail, analysisWg, eventClosed, hres,
                  allCheckData, scores, out, recvLog, cancelled, sandbox >>
  /\ UNCHANGED outside

\* main.go:273-276  analysisWg.Wait(); close(resultsChan)
CloseResults ==
  /\ cpc = "wait" /\ analysisWg = 0
  /\ resultsClosed' = TRUE
  /\ cpc' = "done"
  /\ UNCHANGED << hpc, wpc, wev, tpc, tres, tfail, analysisWg, eventClosed, hres,
                  allCheckData, scores, out, recvLog, cancelled, sandbox >>
  /\ UNCHANGED outside

\* -------------------------------------------------------------- the tasks
\* "defer wg.Done()": the task returns
Return(t) ==
  /\ analysisWg' = analysisWg - 1
  /\ tpc' = [tpc EXCEPT ![t] = "done"]

\* "ch <- CheckResult{EventName: ..., Payload: payload}" as the task's last
\* statement: its half of the meeting on resultsChan (it blocks until the
\* handler receives), then the return
Send(t, payload, failure) ==
  /\ tres' = [tres EXCEPT ![t] = payload]
  /\ tfail' = [tfail EXCEPT ![t] = failure]
  /\ HandlerReceive(CheckResult(EventOf(t), payload))
  /\ Return(t)

\* a task returns without sending anything
GiveUp(t, failure) ==
  /\ tfail' = [tfail EXCEPT ![t] = failure]
  /\ Return(t)
  /\ UNCHANGED << tres, hpc, hres, allCheckData, recvLog >>

\* main.go:342-370  the switch on checkDomainReal's answer
\* a slip: the answers 1 and 2 of checkDomainReal are taken for each other
DomainStatus_Swapped(domainReal) ==
  CASE domainReal = 0 -> "DomainImpersonation"
    [] domainReal = 1 -> "DomainNoSimilarity"
    [] domainReal = 2 -> "DomainExactMatch"

DomainStatus(domainReal) ==
  CASE domainReal = 0 -> "DomainImpersonation"
    [] domainReal = 1 -> "DomainExactMatch"
    [] domainReal = 2 -> "DomainNoSimilarity"

\* main.go:297-372  performDomainAnalysis to its send: the sender is a
\* free-mail provider, or checkDomainReal fails, or it answers 0, 1 or 2
performDomainAnalysis ==
  /\ tpc["domain"] = "run"
  /\ \E isTrusted \in BOOLEAN, err \in BOOLEAN, domainReal \in {0, 1, 2} :
       IF isTrusted
       THEN /\ ~err /\ domainReal = 1
            /\ Send("domain",
                 DomainAnalysisResult("freeMailMatch", ImpactOf("freeMailMatch")),
                 "none")
       ELSE IF err
       THEN /\ domainReal = 0
            /\ GiveUp("domain", "corpusQuery")
       ELSE Send("domain",
              DomainAnalysisResult(DomainStatus(domainReal),
                                   ImpactOf(DomainStatus(domainReal))),
              "none")
  /\ UNCHANGED << wpc, wev, cpc, resultsClosed, eventClosed, scores, out, cancelled, sandbox >>
  /\ UNCHANGED outside

\* main.go:374-391  performURLAnalysis with the scan switched off
performURLAnalysis ==
  /\ tpc["url"] = "run"
  /\ ~isURLScanEnabled
  /\ Send("url", URLAnalysisResult("Disabled", 0, ImpactOf("MaliciousURLFound")),
             "none")
  /\ UNCHANGED << wpc, wev, cpc, resultsClosed, eventClosed, scores, out, cancelled, sandbox >>
  /\ UNCHANGED outside

\* main.go:475-490  performExecutableAnalysis to its send
performExecutableAnalysis ==
  /\ tpc["exec"] = "run"
  /\ \E found \in BOOLEAN :
       Send("exec",
         ExecutableAnalysisResult(found,
           IF ~found THEN ImpactOf("ExecutableFileFound") ELSE 0),
         "none")
  /\ UNCHANGED << wpc, wev, cpc, resultsClosed, eventClosed, scores, out, cancelled, sandbox >>
  /\ UNCHANGED outside

\* main.go:492-550  performTextAnalysis to its send: whoTheyAre fails, or
\* it answers and the result is populated and the phone numbers validated
performTextAnalysis ==
  /\ tpc["text"] = "run"
  /\ \/ Send("text", ErrorContent("Failed to analyse email content."),
                "contentJudgment")
     \/ \E c \in ContentCases :
          Send("text", ContentResult(c.whoResult, c.verified, c.phones), "none")
  /\ UNCHANGED << wpc, wev, cpc, resultsClosed, eventClosed, scores, out, cancelled, sandbox >>
  /\ UNCHANGED outside

\* main.go:552-619  performRenderedAnalysis to its send: the OCR text is
\* empty, or whoTheyAre fails, or it answers
performRenderedAnalysis ==
  /\ tpc["rendered"] = "run"
  /\ \/ Send("rendered", ZeroContent, "ocrEmpty")
     \/ Send("rendered",
                ErrorContent("Failed to analyse rendered email screenshot."),
                "contentJudgment")
     \/ \E c \in ContentCases :
          Send("rendered", ContentResult(c.whoResult, c.verified, c.phones), "none")
  /\ UNCHANGED << wpc, wev, cpc, resultsClosed, eventClosed, scores, out, cancelled, sandbox >>
  /\ UNCHANGED outside

\* whoTheyAre: the reply of the content-judgment call is not valid JSON and
\* log.Fatal ends the process: every goroutine is gone, and of what the
\* request held only the lines already written have reached the caller
whoTheyAreFatal(t) ==
  /\ t \in {"text", "rendered"} /\ tpc[t] = "run"
  /\ hpc' = "exited"
  /\ wpc' = "exited"
  /\ cpc' = "exited"
  /\ tpc' = [u \in Tasks |-> "exited"]
  /\ tfail' = [tfail EXCEPT ![t] = "fatal"]
  /\ UNCHANGED << wev, tres, analysisWg, resultsClosed, eventClosed, hres,
                  allCheckData, scores, out, recvLog, cancelled, sandbox >>
  /\ UNCHANGED outside

\* the caller closes the connection: r.Context() is cancelled
Disconnect ==
  /\ ~cancelled /\ hpc \notin {"returned", "returnedEarly", "exited"}
  /\ cancelled' = TRUE
  /\ UNCHANGED << hpc, wpc, wev, cpc, tpc, tres, tfail, analysisWg, resultsClosed,
                  eventClosed, hres, allCheckData, scores, out, recvLog, sandbox >>
  /\ UNCHANGED outside

Next ==
  \/ HandlerSendMaxScore
  \/ HandlerOpenDB
  \/ HandlerLaunch
  \/ HandlerForward
  \/ HandlerCalculate
  \/ HandlerSendFinal
  \/ HandlerCloseEvents
  \/ HandlerWaitWriter
  \/ WriterHeader
  \/ WriterData
  \/ WriterExit
  \/ CloseResults
  \/ performDomainAnalysis
  \/ performURLAnalysis
  \/ performExecutableAnalysis
  \/ performTextAnalysis
  \/ performRenderedAnalysis
  \/ \E t \in Tasks : whoTheyAreFatal(t)

Spec == Init /\ [][Next]_vars

\* the same request with a caller that may go away at any moment
NextCancel ==
  \/ Next
  \/ Disconnect

SpecCancel == Init /\ [][NextCancel]_vars

\* ------------------------------------------- the handler from its first line
\* the UNCHANGED of a step of the handler before the tasks exist
PrologueUnchanged ==
  UNCHANGED << wev, cpc, tpc, tres, tfail, analysisWg, resultsClosed,
               eventClosed, hres, allCheckData, scores, recvLog, cancelled >>

\* main.go:181-192  the Flusher assertion (http.Error on failure) and
\* io.ReadAll(r.Body)
HandlerReadBody ==
  /\ hpc = "readBody"
  /\ \E outcome \in {"ok", "noFlusher", "readError"} :
       /\ hpc' = IF outcome = "ok" THEN "mkdirTemp" ELSE "returnedEarly"
       /\ out' = IF outcome = "noFlusher"
                 THEN Append(out, Written("handler", "error", NoEvent))
                 ELSE out
  /\ UNCHANGED << wpc, sandbox >>
  /\ PrologueUnchanged
  /\ UNCHANGED outside

\* main.go:193-198  os.MkdirTemp (http.Error on failure)
HandlerMkdirTemp ==
  /\ hpc = "mkdirTemp"
  /\ \E ok \in BOOLEAN :
       IF ok THEN /\ sandbox' = "exists"
                  /\ hpc' = "decode"
                  /\ UNCHANGED out
             ELSE /\ hpc' = "returnedEarly"
                  /\ out' = Append(out, Written("handler", "error", NoEvent))
                  /\ UNCHANGED sandbox
  /\ UNCHANGED wpc
  /\ PrologueUnchanged
  /\ UNCHANGED outside

\* a slip: the removal is deferred only after the decoding, so a failed
\* decoding returns with the directory in place
HandlerDecode_DeferLater ==
  /\ hpc = "decode"
  /\ \E ok \in BOOLEAN :
       hpc' = IF ok THEN "writeFile" ELSE "returnedEarly"
  /\ UNCHANGED << wpc, out, sandbox >>
  /\ PrologueUnchanged
  /\ UNCHANGED outside

\* main.go:199-207  the deferred removal is registered; base64 decoding
HandlerDecode ==
  /\ hpc = "decode"
  /\ \E ok \in BOOLEAN :
       IF ok THEN /\ hpc' = "writeFile"
                  /\ UNCHANGED sandbox
             ELSE /\ hpc' = "returnedEarly"
                  /\ RemoveSandbox
  /\ UNCHANGED << wpc, out >>
  /\ PrologueUnchanged
  /\ UNCHANGED outside

\* main.go:208-212  os.WriteFile of original.eml
HandlerWriteFile ==
  /\ hpc = "writeFile"
  /\ \E ok \in BOOLEAN :
       IF ok THEN /\ hpc' = "parseEmail"
                  /\ UNCHANGED sandbox
             ELSE /\ hpc' = "returnedEarly"
                  /\ RemoveSandbox
  /\ UNCHANGED << wpc, out >>
  /\ PrologueUnchanged
  /\ UNCHANGED outside

\* main.go:214-241  parseEmail returns and the writer goroutine is started
HandlerParseEmail ==
  /\ hpc = "parseEmail"
  /\ hpc' = "sendMaxScore"
  /\ wpc' = "recv"
  /\ UNCHANGED << out, sandbox >>
  /\ PrologueUnchanged
  /\ UNCHANGED outside

\* parseEmail: the message file cannot be opened, read as a MIME envelope,
\* converted to text or rewritten, and log.Fatal ends the process
parseEmailFatal ==
  /\ hpc = "parseEmail"
  /\ hpc' = "exited"
  /\ wpc' = "exited"
  /\ cpc' = "exited"
  /\ tpc' = [u \in Tasks |-> "exited"]
  /\ UNCHANGED << wev, tres, tfail, analysisWg, resultsClosed, eventClosed, hres,
                  allCheckData, scores, out, recvLog, cancelled, sandbox >>
  /\ UNCHANGED outside

\* the handler at its first line: nothing of the request exists yet
HandlerInit ==
  /\ hpc = "readBody"
  /\ wpc = "idle"
  /\ wev = NoEvent
  /\ cpc = "idle"
  /\ tpc = [t \in Tasks |-> "idle"]
  /\ tres = [t \in Tasks |-> Nil]
  /\ tfail = [t \in Tasks |-> "none"]
  /\ analysisWg = 0
  /\ resultsClosed = FALSE
  /\ eventClosed = FALSE
  /\ hres = NoEvent
  /\ allCheckData = [n \in EventNames |-> Nil]
  /\ scores = ZeroScores
  /\ out = << >>
  /\ recvLog = << >>
  /\ cancelled = FALSE
  /\ sandbox = "none"
  /\ OutsideInit

HandlerNext ==
  \/ HandlerReadBody
  \/ HandlerMkdirTemp
  \/ HandlerDecode
  \/ HandlerWriteFile
  \/ HandlerParseEmail
  \/ parseEmailFatal
  \/ NextCancel

HandlerSpec == HandlerInit /\ [][HandlerNext]_vars

\* --------------------------------------- calculateFinalScores on its own
\* every answer of the content-judgment call
AllWhoResults == [OrganizationFound : BOOLEAN, Realistic : BOOLEAN]

\* the payloads a content task can send
ContentPayloads ==
  { ErrorContent("Failed to analyse email content."),
    ErrorContent("Failed to analyse rendered email screenshot."),
    ZeroContent }
  \cup { ContentResult(w, v, ph) :
           w \in AllWhoResults, v \in BOOLEAN, ph \in PhoneLists }

\* the result maps the handler can hand to calculateFinalScores: each task's
\* entry is missing or holds a payload that task can send
DataMaps ==
  { m \in [EventNames -> {Nil} \cup ContentPayloads
             \cup { DomainAnalysisResult(st, ImpactOf(st)) :
                      st \in {"freeMailMatch", "DomainImpersonation",
                              "DomainExactMatch", "DomainNoSimilarity"} }
             \cup { URLAnalysisResult("Disabled", 0, ImpactOf("MaliciousURLFound")) }
             \cup { ExecutableAnalysisResult(f, IF ~f THEN ImpactOf("ExecutableFileFound")
                                                      ELSE 0) : f \in BOOLEAN }] :
      /\ m["domainAnalysis"].type \in {"nil", "DomainAnalysisResult"}
      /\ m["urlAnalysis"].type \in {"nil", "URLAnalysisResult"}
      /\ m["executableAnalysis"].type \in {"nil", "ExecutableAnalysisResult"}
      /\ m["textAnalysis"].type \in {"nil", "ContentAnalysisResult"}
      /\ m["renderedAnalysis"].type \in {"nil", "ContentAnalysisResult"} }

\* the handler at the end of its receive loop, holding any result map
CalcInit ==
  /\ hpc = "recv"
  /\ wpc = "recv"
  /\ wev = NoEvent
  /\ cpc = "done"
  /\ tpc = [t \in Tasks |-> "done"]
  /\ tres = [t \in Tasks |-> Nil]
  /\ tfail = [t \in Tasks |-> "none"]
  /\ analysisWg = 0
  /\ resultsClosed = TRUE
  /\ eventClosed = FALSE
  /\ hres = NoEvent
  /\ allCheckData \in DataMaps
  /\ scores = ZeroScores
  /\ out = << >>
  /\ recvLog = << >>
  /\ cancelled = FALSE
  /\ sandbox = "exists"
  /\ OutsideInit

CalcNext == HandlerCalculate

CalcSpec == CalcInit /\ [][CalcNext]_vars


\* ------------------------------- performURLAnalysis with the scan switched on
\* main.go:393-473, the branch a build with isURLScanEnabled = true runs
\* ctx := context.WithTimeout(rCtx, 3*time.Minute): done when the request's
\* context is, or on its own
ctxDone == cancelled \/ urlCtxDone

\* Verdict, URLScanUpdate, URLScanStartInfo
Verdict(u, finalDecision) ==
  [type |-> "Verdict", Report |-> u, FinalDecision |-> finalDecision]

LookupError == [type |-> "error"]

URLScanUpdate(u, r) ==
  IF r.type = "Verdict"
  THEN [type |-> "URLScanUpdate", URL |-> u, FinalDecision |-> r.FinalDecision,
        Error |-> ""]
  ELSE [type |-> "URLScanUpdate", URL |-> u, FinalDecision |-> FALSE,
        Error |-> "error"]

URLScanStartInfo(total) == [type |-> "URLScanStartInfo", Total |-> total]

\* "eventChan <- event" by a goroutine of the URL task, taken by the writer
EventSend(event) ==
  /\ wpc = "recv" /\ ~eventClosed
  /\ wev' = event
  /\ wpc' = "header"

\* main.go:393-407  the second "defer wg.Done()", the context, the candidate
\* URLs of the message after unescaping, trimming and the extension filter
URLEnter ==
  /\ tpc["url"] = "run" /\ upc = "off"
  /\ \E candidates \in SUBSET URLs : uniqueURLs' = candidates
  /\ upc' = "resolve"
  /\ UNCHANGED << requestVars, finalUniqueURLs, gpc, verdictsChan, urlCtxDone,
                  globalVars, callVars >>

\* main.go:410-414  getFinalURL(ctx, u) for one candidate: it fails (always
\* when the context is done) or gives the final URL
getFinalURL ==
  /\ upc = "resolve"
  /\ \E u \in uniqueURLs :
       /\ uniqueURLs' = uniqueURLs \ {u}
       /\ \/ UNCHANGED finalUniqueURLs
          \/ /\ ~ctxDone
             /\ \E final \in FinalURLs :
                  finalUniqueURLs' = finalUniqueURLs \cup {final}
  /\ UNCHANGED << requestVars, upc, gpc, verdictsChan, urlCtxDone, globalVars,
                  callVars >>

\* main.go:415-428  urlScanStarted is sent and one goroutine per final URL
\* started
URLScanStarted ==
  /\ upc = "resolve" /\ uniqueURLs = {}
  /\ EventSend(CheckResult("urlScanStarted",
                           URLScanStartInfo(Cardinality(finalUniqueURLs))))
  /\ gpc' = [u \in FinalURLs |->
               IF u \in finalUniqueURLs THEN [pc |-> "check", r |-> Nil]
                                        ELSE NoScan]
  /\ upc' = "wait"
  /\ UNCHANGED << hpc, cpc, tpc, tres, tfail, analysisWg, resultsClosed,
                  eventClosed, hres, allCheckData, scores, out, recvLog,
                  cancelled, sandbox >>
  /\ UNCHANGED << uniqueURLs, finalUniqueURLs, verdictsChan, urlCtxDone,
                  globalVars, callVars >>

\* a slip: a failed lookup cancels the shared context
checkURLs_CancelOnError(u) ==
  /\ upc = "wait" /\ gpc[u].pc = "check"
  /\ \/ /\ gpc' = [gpc EXCEPT ![u] = [pc |-> "event", r |-> LookupError]]
        /\ urlCtxDone' = TRUE
        /\ UNCHANGED verdictsChan
     \/ /\ ~ctxDone
        /\ \E finalDecision \in BOOLEAN :
             /\ gpc' = [gpc EXCEPT ![u] = [pc |-> "event",
                                           r |-> Verdict(u, finalDecision)]]
             /\ verdictsChan' = Append(verdictsChan, Verdict(u, finalDecision))
        /\ UNCHANGED urlCtxDone
  /\ UNCHANGED << requestVars, upc, uniqueURLs, finalUniqueURLs, globalVars,
                  callVars >>

\* main.go:430-432,438  checkURLs(ctx, url) in the goroutine of one final
\* URL: an error (always when the context is done), or a verdict, which is
\* put on the buffered verdictsChan
checkURLs(u) ==
  /\ upc = "wait" /\ gpc[u].pc = "check"
  /\ \/ /\ gpc' = [gpc EXCEPT ![u] = [pc |-> "event", r |-> LookupError]]
        /\ UNCHANGED verdictsChan
     \/ /\ ~ctxDone
        /\ \E finalDecision \in BOOLEAN :
             /\ gpc' = [gpc EXCEPT ![u] = [pc |-> "event",
                                           r |-> Verdict(u, finalDecision)]]
             /\ verdictsChan' = Append(verdictsChan, Verdict(u, finalDecision))
  /\ UNCHANGED << requestVars, upc, uniqueURLs, finalUniqueURLs, urlCtxDone,
                  globalVars, callVars >>

\* main.go:433-445  the goroutine sends its urlScanResult event and ends
\* (urlWg.Done)
URLScanResult(u) ==
  /\ gpc[u].pc = "event"
  /\ EventSend(CheckResult("urlScanResult", URLScanUpdate(u, gpc[u].r)))
  /\ gpc' = [gpc EXCEPT ![u].pc = "done"]
  /\ UNCHANGED << hpc, cpc, tpc, tres, tfail, analysisWg, resultsClosed,
                  eventClosed, hres, allCheckData, scores, out, recvLog,
                  cancelled, sandbox >>
  /\ UNCHANGED << upc, uniqueURLs, finalUniqueURLs, verdictsChan, urlCtxDone,
                  globalVars, callVars >>

\* the verdicts that say malicious
RECURSIVE CountMalicious(_, _)
CountMalicious(verdicts, i) ==
  IF i > Len(verdicts) THEN 0
  ELSE (IF verdicts[i].FinalDecision THEN 1 ELSE 0) + CountMalicious(verdicts, i + 1)

\* a slip: the points are given whatever the verdicts say
URLResultOf_ImpactAlways(verdicts) ==
  LET maliciousURLCount == CountMalicious(verdicts, 1) IN
  (IF maliciousURLCount > 0
   THEN URLAnalysisResult("MaliciousURLsDetected", maliciousURLCount,
                          ImpactOf("MaliciousURLFound"))
   ELSE URLAnalysisResult("Clean", maliciousURLCount, ImpactOf("MaliciousURLFound")))
    @@ [UrlVerdicts |-> verdicts]

\* main.go:458-471  the result built from the verdicts
URLResultOf(verdicts) ==
  LET maliciousURLCount == CountMalicious(verdicts, 1) IN
  (IF maliciousURLCount > 0
   THEN URLAnalysisResult("MaliciousURLsDetected", maliciousURLCount, 0)
   ELSE URLAnalysisResult("Clean", maliciousURLCount, ImpactOf("MaliciousURLFound")))
    @@ [UrlVerdicts |-> verdicts]

\* a slip: the verdicts are left in the channel when the context is done
URLResult_DropOnCancel ==
  /\ tpc["url"] = "run" /\ upc = "wait"
  /\ \A u \in finalUniqueURLs : gpc[u].pc = "done"
  /\ LET verdicts == IF ctxDone THEN << >> ELSE verdictsChan IN
       /\ tres' = [tres EXCEPT !["url"] = URLResultOf(verdicts)]
       /\ HandlerReceive(CheckResult("urlAnalysis", URLResultOf(verdicts)))
  /\ analysisWg' = analysisWg - 2
  /\ tpc' = [tpc EXCEPT !["url"] = "done"]
  /\ upc' = "done"
  /\ urlCtxDone' = TRUE
  /\ UNCHANGED << wpc, wev, cpc, tfail, resultsClosed, eventClosed, scores, out,
                  cancelled, sandbox >>
  /\ UNCHANGED << uniqueURLs, finalUniqueURLs, gpc, verdictsChan, globalVars,
                  callVars >>

\* a slip: the result is sent without urlWg.Wait()
URLResult_NoWait ==
  /\ tpc["url"] = "run" /\ upc = "wait"
  /\ tres' = [tres EXCEPT !["url"] = URLResultOf(verdictsChan)]
  /\ HandlerReceive(CheckResult("urlAnalysis", URLResultOf(verdictsChan)))
  /\ analysisWg' = analysisWg - 2
  /\ tpc' = [tpc EXCEPT !["url"] = "done"]
  /\ upc' = "done"
  /\ urlCtxDone' = TRUE
  /\ UNCHANGED << wpc, wev, cpc, tfail, resultsClosed, eventClosed, scores, out,
                  cancelled, sandbox >>
  /\ UNCHANGED << uniqueURLs, finalUniqueURLs, gpc, verdictsChan, globalVars,
                  callVars >>

\* main.go:447-473  urlWg.Wait(), close(verdictsChan), the verdicts are
\* collected and the result sent; on return cancel() and both deferred
\* wg.Done() run
URLResult ==
  /\ tpc["url"] = "run" /\ upc = "wait"
  /\ \A u \in finalUniqueURLs : gpc[u].pc = "done"
  /\ tres' = [tres EXCEPT !["url"] = URLResultOf(verdictsChan)]
  /\ HandlerReceive(CheckResult("urlAnalysis", URLResultOf(verdictsChan)))
  /\ analysisWg' = analysisWg - 2
  /\ tpc' = [tpc EXCEPT !["url"] = "done"]
  /\ upc' = "done"
  /\ urlCtxDone' = TRUE
  /\ UNCHANGED << wpc, wev, cpc, tfail, resultsClosed, eventClosed, scores, out,
                  cancelled, sandbox >>
  /\ UNCHANGED << uniqueURLs, finalUniqueURLs, gpc, verdictsChan, globalVars,
                  callVars >>

\* the 3 minutes of context.WithTimeout pass
URLDeadline ==
  /\ upc \in {"resolve", "wait"} /\ ~urlCtxDone
  /\ urlCtxDone' = TRUE
  /\ UNCHANGED << requestVars, upc, uniqueURLs, finalUniqueURLs, gpc,
                  verdictsChan, globalVars, callVars >>

\* the request while the URL, domain and attachment tasks run; the two
\* content tasks have not come back from their outside calls yet
URLNext ==
  \/ HandlerSendMaxScore
  \/ HandlerOpenDB
  \/ HandlerLaunch
  \/ HandlerForward
  \/ WriterHeader
  \/ WriterData
  \/ WriterExit
  \/ performDomainAnalysis
  \/ performExecutableAnalysis
  \/ URLEnter
  \/ getFinalURL
  \/ URLScanStarted
  \/ \E u \in FinalURLs : checkURLs(u)
  \/ \E u \in FinalURLs : URLScanResult(u)
  \/ URLResult
  \/ URLDeadline
  \/ Disconnect

URLSpec == Init /\ [][URLNext]_vars

\* every goroutine that can take a step takes one sooner or later; whether
\* and when the caller goes away or the deadline passes is left open
URLProgress ==
  \/ HandlerSendMaxScore
  \/ HandlerOpenDB
  \/ HandlerLaunch
  \/ HandlerForward
  \/ WriterHeader
  \/ WriterData
  \/ WriterExit
  \/ performDomainAnalysis
  \/ performExecutableAnalysis
  \/ URLEnter
  \/ getFinalURL
  \/ URLScanStarted
  \/ \E u \in FinalURLs : checkURLs(u)
  \/ \E u \in FinalURLs : URLScanResult(u)
  \/ URLResult

URLFairSpec == URLSpec /\ WF_vars(URLProgress)

\* ------------------------------- analysisWg under both values of the switch
\* the lines the writer has written for one event
Frame(ev) == << Line("event", ev), Line("data", ev) >>

\* main.go:256-276 has just run and the writer has written all it was sent.
\* With the scan switched off the URL task is at its first line; with the
\* scan switched on, and a message that holds no URL, it has registered its
\* second "defer wg.Done()" (main.go:393), sent urlScanStarted with a total
\* of 0 and waits for its goroutines, of which there are none
WgInit ==
  /\ hpc = "recv"
  /\ wpc = "recv"
  /\ wev = NoEvent
  /\ cpc = "wait"
  /\ tpc = [t \in Tasks |-> "run"]
  /\ tres = [t \in Tasks |-> Nil]
  /\ tfail = [t \in Tasks |-> "none"]
  /\ analysisWg = numChecks
  /\ resultsClosed = FALSE
  /\ eventClosed = FALSE
  /\ hres = NoEvent
  /\ allCheckData = [n \in EventNames |-> Nil]
  /\ scores = ZeroScores
  /\ recvLog = << >>
  /\ cancelled = FALSE
  /\ sandbox = "exists"
  /\ \/ /\ upc = "off"
        /\ out = Frame(CheckResult("maxScore",
                                   [type |-> "maxScore", maxScore |-> MaxScore]))
     \/ /\ upc = "wait"
        /\ out = Frame(CheckResult("maxScore",
                                   [type |-> "maxScore", maxScore |-> MaxScore]))
                 \o Frame(CheckResult("urlScanStarted", URLScanStartInfo(0)))
  /\ uniqueURLs = {}
  /\ finalUniqueURLs = {}
  /\ gpc = [u \in FinalURLs |-> NoScan]
  /\ verdictsChan = << >>
  /\ urlCtxDone = FALSE
  /\ GlobalInit
  /\ CallInit

\* the URL task of the build with the scan switched off
performURLAnalysisOff == upc = "off" /\ performURLAnalysis

\* main.go:454-472  the result is sent; as the function returns the deferred
\* calls run last registered first: cancel(), then the wg.Done() of line 393
URLSendResult ==
  /\ tpc["url"] = "run" /\ upc = "wait"
  /\ \A u \in finalUniqueURLs : gpc[u].pc = "done"
  /\ tres' = [tres EXCEPT !["url"] = URLResultOf(verdictsChan)]
  /\ HandlerReceive(CheckResult("urlAnalysis", URLResultOf(verdictsChan)))
  /\ analysisWg' = analysisWg - 1
  /\ upc' = "deferred"
  /\ urlCtxDone' = TRUE
  /\ UNCHANGED << wpc, wev, cpc, tpc, tfail, resultsClosed, eventClosed, scores,
                  out, cancelled, sandbox >>
  /\ UNCHANGED << uniqueURLs, finalUniqueURLs, gpc, verdictsChan, globalVars,
                  callVars >>

\* main.go:375  the wg.Done() deferred first runs last, and the task is over
URLSecondDone ==
  /\ tpc["url"] = "run" /\ upc = "deferred"
  /\ Return("url")
  /\ upc' = "done"
  /\ UNCHANGED << hpc, wpc, wev, cpc, tres, tfail, resultsClosed, eventClosed,
                  hres, allCheckData, scores, out, recvLog, cancelled, sandbox >>
  /\ UNCHANGED << uniqueURLs, finalUniqueURLs, gpc, verdictsChan, urlCtxDone,
                  globalVars, callVars >>

\* a panic nobody recovers ends the process, as log.Fatal does
Panic(t, why) ==
  /\ hpc' = "exited"
  /\ wpc' = "exited"
  /\ cpc' = "exited"
  /\ tpc' = [u \in Tasks |-> "exited"]
  /\ tfail' = [tfail EXCEPT ![t] = why]
  /\ UNCHANGED << wev, tres, analysisWg, resultsClosed, eventClosed, hres,
                  allCheckData, scores, out, recvLog, cancelled, sandbox >>
  /\ UNCHANGED outside

\* sync.WaitGroup: Add has brought the counter below zero and panics with
\* "sync: negative WaitGroup counter"
NegativeCounterPanic ==
  /\ analysisWg < 0 /\ hpc # "exited"
  /\ \E t \in Tasks : tpc[t] = "done" /\ Panic(t, "negativeCounter")

\* a task comes to its "ch <- ..." when resultsChan is closed already:
\* "send on closed channel"
SendOnClosed(t) ==
  /\ tpc[t] = "run" /\ resultsClosed
  /\ t = "url" => upc \in {"off", "wait"}
  /\ Panic(t, "sendOnClosed")

WgNext ==
  \/ HandlerForward
  \/ HandlerCalculate
  \/ HandlerSendFinal
  \/ HandlerCloseEvents
  \/ HandlerWaitWriter
  \/ WriterHeader
  \/ WriterData
  \/ WriterExit
  \/ CloseResults
  \/ performDomainAnalysis
  \/ performURLAnalysisOff
  \/ performExecutableAnalysis
  \/ performTextAnalysis
  \/ performRenderedAnalysis
  \/ \E t \in Tasks : whoTheyAreFatal(t)
  \/ URLSendResult
  \/ URLSecondDone
  \/ NegativeCounterPanic
  \/ \E t \in Tasks : SendOnClosed(t)

WgSpec == WgInit /\ [][WgNext]_vars

\* ------------------------------------------- requests served side by side
\* net/http runs streamEmailHandler once per connection, each in a goroutine
\* of its own; parseEmail keeps what it parsed in the package-level Email
Requests == {1, 2}

\* how many messages one connection sends, one after the other
MaxServed == 2

\* a message: which one it is (its bodies) and whether its From header
\* parses to an address with a registrable domain
Messages == [id : {"m1", "m2"}, fromOK : BOOLEAN]

\* the sender domain of a message; none when the From header does not parse
DomainOf(msg) == IF msg.fromOK THEN msg.id ELSE ""

NewRequest(msg, served) ==
  [pc |-> "parseBodies", msg |-> msg, served |-> served,
   domainArg |-> "unset", textRead |-> "unset"]

\* parseEmail: Email.Subject, Email.From, Email.Text, Email.HTML are assigned
parseEmailBodies(r) ==
  /\ rq[r].pc = "parseBodies"
  /\ Email' = [Email EXCEPT !.Text = rq[r].msg.id]
  /\ rq' = [rq EXCEPT ![r].pc = "parseFrom"]
  /\ UNCHANGED << requestVars, urlVars, callVars >>

\* parseEmail: Email.subDomain and Email.Domain are assigned only when
\* mail.ParseAddress and publicsuffix.EffectiveTLDPlusOne succeed
parseEmailFrom(r) ==
  /\ rq[r].pc = "parseFrom"
  /\ Email' = IF rq[r].msg.fromOK
              THEN [Email EXCEPT !.Domain = DomainOf(rq[r].msg)]
              ELSE Email
  /\ rq' = [rq EXCEPT ![r].pc = "launch"]
  /\ UNCHANGED << requestVars, urlVars, callVars >>

\* main.go:267  go performDomainAnalysis(..., Email.Domain, Email.subDomain, ...):
\* the arguments are read from Email as the go statement runs
LaunchTasks(r) ==
  /\ rq[r].pc = "launch"
  /\ rq' = [rq EXCEPT ![r].pc = "tasks", ![r].domainArg = Email.Domain]
  /\ UNCHANGED << Email, requestVars, urlVars, callVars >>

\* main.go:508  performTextAnalysis reads Email.Text and Email.HTML for the
\* phone numbers (whoTheyAre and RenderEmailHTML read Email the same way)
ReadBodies(r) ==
  /\ rq[r].pc = "tasks"
  /\ rq' = [rq EXCEPT ![r].pc = "returned", ![r].textRead = Email.Text]
  /\ UNCHANGED << Email, requestVars, urlVars, callVars >>

\* the connection sends its next message
ServeNext(r) ==
  /\ rq[r].pc = "returned" /\ rq[r].served < MaxServed
  /\ \E msg \in Messages : rq' = [rq EXCEPT ![r] = NewRequest(msg, rq[r].served + 1)]
  /\ UNCHANGED << Email, requestVars, urlVars, callVars >>

ServerInit ==
  /\ RequestInit
  /\ URLInit
  /\ CallInit
  /\ Email = [Domain |-> "", Text |-> ""]
  /\ rq \in [Requests -> {NewRequest(msg, 1) : msg \in Messages}]

ServerNext ==
  \E r \in Requests :
    \/ parseEmailBodies(r)
    \/ parseEmailFrom(r)
    \/ LaunchTasks(r)
    \/ ReadBodies(r)
    \/ ServeNext(r)

ServerSpec == ServerInit /\ [][ServerNext]_vars

\* ------------------------------------------- Backend/scoreSettings.go
\* Backend/scoreSettings.go registers the same AllChecks
\* positiveImpact: the impact of the first check of that name whose impact
\* is positive, else 0
RECURSIVE positiveImpactFrom(_, _)
positiveImpactFrom(i, name) ==
  IF i > Len(AllChecks) THEN 0
  ELSE IF AllChecks[i].Name = name /\ AllChecks[i].Impact > 0
       THEN AllChecks[i].Impact
       ELSE positiveImpactFrom(i + 1, name)

positiveImpact(name) == positiveImpactFrom(1, name)

\* the loop of maxDomainImpact from the i-th name on
RECURSIVE maxDomainImpactFrom(_, _, _)
maxDomainImpactFrom(names, i, maxScore) ==
  IF i > Len(names) THEN maxScore
  ELSE LET impact == positiveImpact(names[i]) IN
       maxDomainImpactFrom(names, i + 1,
                           IF impact > maxScore THEN impact ELSE maxScore)

\* a slip: the domain outcomes are added up
maxDomainImpact_Sum ==
  positiveImpact("DomainExactMatch") + positiveImpact("DomainNoSimilarity")
    + positiveImpact("freeMailMatch")

maxDomainImpact ==
  maxDomainImpactFrom(<< "DomainExactMatch", "DomainNoSimilarity",
                         "freeMailMatch" >>, 1, 0)

\* a slip: the phone-number check is left out of the content total
textAnalysisImpact_NoPhone ==
  positiveImpact("CompanyIdentified") + positiveImpact("CompanyVerified")
    + positiveImpact("RealismCheck")

textAnalysisImpact ==
  positiveImpact("CompanyIdentified") + positiveImpact("CompanyVerified")
    + positiveImpact("RealismCheck") + positiveImpact("CorrectPhoneNumber")

\* a slip: a key the map does not hold counts as switched off
isEnabled_AbsentDisabled(enabled, key) ==
  IF key \in DOMAIN enabled THEN enabled[key] ELSE FALSE

\* isEnabled: "val, ok := enabled[key]; if !ok { return true }; return val"
isEnabled(enabled, key) ==
  IF key \in DOMAIN enabled THEN enabled[key] ELSE TRUE

\* a map[string]bool argument: nil, or the map itself
NilMap == [nil |-> TRUE, m |-> << >>]

MapOf(m) == [nil |-> FALSE, m |-> m]

\* MaxScoreFor (the float64 result is a whole number)
MaxScoreFor(arg) ==
  LET enabled == IF arg.nil THEN << >> ELSE arg.m
      t1 == IF isEnabled(enabled, "checkDomain") THEN maxDomainImpact ELSE 0
      t2 == IF isEnabled(enabled, "checkUrls")
            THEN t1 + positiveImpact("MaliciousURLFound") ELSE t1
      t3 == IF isEnabled(enabled, "checkAttachments")
            THEN t2 + positiveImpact("ExecutableFileFound") ELSE t2
      total == IF isEnabled(enabled, "checkTextAnalysis")
                  \/ isEnabled(enabled, "checkRenderedAnalysis")
               THEN t3 + textAnalysisImpact ELSE t3
  IN total

\* Frontend/chrome-extension/core/analysis-core.js: DEFAULT_CHECKS, mergeChecks
CheckKeys == {"checkDomain", "checkUrls", "checkAttachments",
              "checkTextAnalysis", "checkRenderedAnalysis"}

DEFAULT_CHECKS == [k \in CheckKeys |-> TRUE]

\* { ...DEFAULT_CHECKS, ...settings }
mergeChecks(settings) ==
  [k \in CheckKeys \cup DOMAIN settings |->
     IF k \in DOMAIN settings THEN settings[k] ELSE DEFAULT_CHECKS[k]]

\* the maps a caller can send: any of the five keys, and one the backend
\* does not know, present or not
EnabledMaps ==
  UNION {[K -> BOOLEAN] : K \in SUBSET (CheckKeys \cup {"checkOther"})}

\* one call of MaxScoreFor
ScoreInit ==
  /\ RequestInit
  /\ GlobalInit
  /\ URLInit
  /\ call \in {[fn |-> "MaxScoreFor", enabled |-> NilMap]}
               \cup {[fn |-> "MaxScoreFor", enabled |-> MapOf(m)] : m \in EnabledMaps}
  /\ ret = NoCall

MaxScoreForCall ==
  /\ call.fn = "MaxScoreFor" /\ ret.fn = ""
  /\ ret' = [fn |-> "MaxScoreFor", value |-> MaxScoreFor(call.enabled)]
  /\ UNCHANGED << call, requestVars, globalVars, urlVars >>

ScoreNext == MaxScoreForCall

ScoreSpec == ScoreInit /\ [][ScoreNext]_vars

\* ------------------------------------- phone numbers, both handlers
\* runEmailHandler (the handler of /process-eml): the phone-number part of
\* its text phase and of its rendered phase, run one after the other on the
\* same finalResult. phones[i] is isValid of the i-th number; only what the
\* phone numbers add to the two scores is kept
PhoneImpact == AllChecks[7].Impact

NoPhoneCredit ==
  [TextImpact |-> 0, RenderedImpact |-> 0,
   finalScoreNormal |-> 0, finalScoreRendered |-> 0]

\* "finalResult.TextAnalysis.ContactMethodAnalysis.ScoreImpact = ...;
\*  finalScoreNormal += ..."
CreditText(fr) ==
  [fr EXCEPT !.TextImpact = PhoneImpact,
             !.finalScoreNormal = @ + PhoneImpact]

\* "finalResult.RenderedAnalysis.ContactMethodAnalysis.ScoreImpact = ...;
\*  finalScoreRendered += ..."
CreditRendered(fr) ==
  [fr EXCEPT !.RenderedImpact = PhoneImpact,
             !.finalScoreRendered = @ + PhoneImpact]

\* the loop over phoneNumbersText
RECURSIVE textPhoneLoop(_, _, _, _)
textPhoneLoop(phones, i, scoreImpactApplied, fr) ==
  IF i > Len(phones) THEN fr
  ELSE IF phones[i] /\ ~scoreImpactApplied
       THEN textPhoneLoop(phones, i + 1, TRUE, CreditText(fr))
       ELSE textPhoneLoop(phones, i + 1, scoreImpactApplied, fr)

\* the loop over phoneNumbersRendered: its first valid number writes
\* finalResult.TextAnalysis and finalScoreNormal
RECURSIVE renderedPhoneLoop(_, _, _, _)
renderedPhoneLoop(phones, i, scoreImpactApplied, fr) ==
  IF i > Len(phones) THEN fr
  ELSE IF phones[i] /\ ~scoreImpactApplied
       THEN renderedPhoneLoop(phones, i + 1, TRUE, CreditText(fr))
       ELSE renderedPhoneLoop(phones, i + 1, scoreImpactApplied, fr)

runEmailHandlerPhones(textPhones, ocrEmpty, renderedPhones) ==
  LET afterText ==
        IF Len(textPhones) = 0 THEN CreditText(NoPhoneCredit)
        ELSE textPhoneLoop(textPhones, 1, FALSE, NoPhoneCredit)
  IN IF ocrEmpty THEN afterText
     ELSE IF Len(renderedPhones) = 0 THEN CreditRendered(afterText)
     ELSE renderedPhoneLoop(renderedPhones, 1, FALSE, afterText)

\* the two tasks of streamEmailHandler, each on a result of its own
streamPhones(textPhones, ocrEmpty, renderedPhones) ==
  LET text == ContactMethodAnalysis(textPhones).ScoreImpact
      rendered == IF ocrEmpty THEN 0
                  ELSE ContactMethodAnalysis(renderedPhones).ScoreImpact
  IN [TextImpact |-> text, RenderedImpact |-> rendered,
      finalScoreNormal |-> text, finalScoreRendered |-> rendered]

PhoneCalls ==
  [fn : {"runEmailHandler", "streamEmailHandler"},
   textPhones : PhoneLists, ocrEmpty : {FALSE}, renderedPhones : PhoneLists]
  \cup [fn : {"runEmailHandler", "streamEmailHandler"},
        textPhones : PhoneLists, ocrEmpty : {TRUE}, renderedPhones : {<< >>}]

PhoneInit ==
  /\ RequestInit
  /\ GlobalInit
  /\ URLInit
  /\ call \in PhoneCalls
  /\ ret = NoCall

runEmailHandlerCall ==
  /\ call.fn = "runEmailHandler" /\ ret.fn = ""
  /\ ret' = [fn |-> call.fn,
             value |-> runEmailHandlerPhones(call.textPhones, call.ocrEmpty,
                                             call.renderedPhones)]
  /\ UNCHANGED << call, requestVars, globalVars, urlVars >>

streamEmailHandlerCall ==
  /\ call.fn = "streamEmailHandler" /\ ret.fn = ""
  /\ ret' = [fn |-> call.fn,
             value |-> streamPhones(call.textPhones, call.ocrEmpty,
                                    call.renderedPhones)]
  /\ UNCHANGED << call, requestVars, globalVars, urlVars >>

PhoneNext == runEmailHandlerCall \/ streamEmailHandlerCall

PhoneSpec == PhoneInit /\ [][PhoneNext]_vars

\* ------------------------------------------------- checkDomainReal
\* A domain name is the sequence of its characters
example_com == << "e", "x", "a", "m", "p", "l", "e", ".", "c", "o", "m" >>

examp1e_com == << "e", "x", "a", "m", "p", "1", "e", ".", "c", "o", "m" >>

Example_com == << "E", "x", "a", "m", "p", "l", "e", ".", "c", "o", "m" >>

gmail_com == << "g", "m", "a", "i", "l", ".", "c", "o", "m" >>

mail_com == << "m", "a", "i", "l", ".", "c", "o", "m" >>

\* the letter u with a diaeresis, two bytes in UTF-8
uDiaeresis == "u:"

bucher_de == << "b", uDiaeresis, "c", "h", "e", "r", ".", "d", "e" >>

xn_bucher_de ==
  << "x", "n", "-", "-", "b", "c", "h", "e", "r", "-", "k", "v", "a",
     ".", "d", "e" >>

my_shop_com == << "m", "y", "_", "s", "h", "o", "p", ".", "c", "o", "m" >>

\* the longest generated name
MaxDomainLen == 24

\* a name of l characters: "a...a.com"
Pad(l) == [i \in 1..l |-> IF i <= l - 4 THEN "a" ELSE << ".", "c", "o", "m" >>[i - (l - 4)]]

\* main.go: trustedProviders, as far as the names above go
trustedProviders == {gmail_com}

\* strings.ToLower
ToLowerChar(c) == IF c = "E" THEN "e" ELSE c

ToLower(str) == [i \in 1..Len(str) |-> ToLowerChar(str[i])]

\* idna.Lookup.ToASCII on the names above: a name with a letter outside
\* ASCII is Punycode-encoded, a name with a character STD3 forbids is an
\* error, a lower-case ASCII name is returned as it is
ToASCII(str) ==
  IF str = bucher_de THEN [err |-> FALSE, s |-> xn_bucher_de]
  ELSE IF \E i \in 1..Len(str) : str[i] = "_" THEN [err |-> TRUE, s |-> << >>]
  ELSE [err |-> FALSE, s |-> str]

\* len() of a Go string counts bytes
RECURSIVE ByteLen(_)
ByteLen(str) ==
  IF str = << >> THEN 0
  ELSE (IF Head(str) = uDiaeresis THEN 2 ELSE 1) + ByteLen(Tail(str))

Least(S) == CHOOSE x \in S : \A y \in S : x <= y

\* fuzzy.LevenshteinDistance: the row of the table for the i-th character
\* of str, from the row before it. Entry j is the least of the entry above
\* plus one, the entry above to the left plus the cost of the two
\* characters, and the entry to the left plus one; the last is unfolded
\* into the least over the entries k <= j of (their first two) + (j - k)
LevRow(str, t, i, prev) ==
  LET n == Len(t)
      fromAbove(k) ==
        IF k = 0 THEN i
        ELSE LET cost == IF str[i] = t[k] THEN 0 ELSE 1
                 del == prev[k + 1] + 1
                 sub == prev[k] + cost
             IN IF del <= sub THEN del ELSE sub
  IN SubSeq([j \in 1..(n + 1) |->
               Least({fromAbove(k) + (j - 1) - k : k \in 0..(j - 1)})],
            1, n + 1)

\* row after row; each row is complete before the next one is started
RECURSIVE LevRows(_, _, _, _)
LevRows(str, t, i, prev) ==
  IF i > Len(str) THEN prev[Len(t) + 1]
  ELSE LET row == LevRow(str, t, i, prev) IN
       IF Len(row) = Len(t) + 1 THEN LevRows(str, t, i + 1, row) ELSE -1

LevenshteinDistance(str, t) ==
  LevRows(str, t, 1, [j \in 1..(Len(t) + 1) |-> j - 1])

\* a slip: the first bound of the switch is strict
thresh_StrictBound(l) ==
  IF l < 11 THEN 1
  ELSE IF l <= 15 THEN 2
  ELSE (3 * l + 19) \div 20

\* the switch on l := len(ascii). float64(l) * 0.15 is 0.15 * l less at
\* most l * 2^-57, and 0.15 * l is a whole number or at least 0.05 away
\* from one, so math.Ceil of the product is the least whole number that is
\* at least 3 * l / 20
thresh(l) ==
  IF l <= 11 THEN 1
  ELSE IF l <= 15 THEN 2
  ELSE (3 * l + 19) \div 20

\* the failures of the two queries: the count, the query for all rows, the
\* scan of the first row, rows.Err, rows.Close
CorpusFailures == {"none", "count", "query", "scan", "rowsErr", "close"}

\* "SELECT COUNT(domain) FROM websites WHERE domain = ?"
CountDomain(corpus, ascii) ==
  Cardinality({i \in 1..Len(corpus) : corpus[i] = ascii})

\* another reading: the closest of the entries within the threshold
scanRows_Closest(corpus, i, ascii, t, fail) ==
  LET dist(j) == LevenshteinDistance(ascii, ToLower(corpus[j]))
      within == {j \in i..Len(corpus) : dist(j) <= t}
  IN IF fail = "scan" /\ i = 1 /\ Len(corpus) > 0
     THEN [code |-> 2, matched |-> << >>, err |-> TRUE]
     ELSE IF within # {}
     THEN [code |-> 0, err |-> FALSE,
           matched |-> corpus[CHOOSE j \in within :
                                \A k \in within : dist(j) < dist(k) \/ (dist(j) = dist(k) /\ j <= k)]]
     ELSE IF fail = "rowsErr"
     THEN [code |-> 2, matched |-> << >>, err |-> TRUE]
     ELSE [code |-> 2, matched |-> ascii, err |-> FALSE]

\* a slip: an entry counts as close only below the threshold
RECURSIVE scanRows_Strict(_, _, _, _, _)
scanRows_Strict(corpus, i, ascii, t, fail) ==
  IF i > Len(corpus)
  THEN IF fail = "rowsErr"
       THEN [code |-> 2, matched |-> << >>, err |-> TRUE]
       ELSE [code |-> 2, matched |-> ascii, err |-> FALSE]
  ELSE IF fail = "scan" /\ i = 1
       THEN [code |-> 2, matched |-> << >>, err |-> TRUE]
  ELSE IF LevenshteinDistance(ascii, ToLower(corpus[i])) < t
       THEN [code |-> 0, matched |-> corpus[i], err |-> FALSE]
  ELSE scanRows_Strict(corpus, i + 1, ascii, t, fail)

\* the pass over the rows from the i-th on
RECURSIVE scanRows(_, _, _, _, _)
scanRows(corpus, i, ascii, t, fail) ==
  IF i > Len(corpus)
  THEN IF fail = "rowsErr"
       THEN [code |-> 2, matched |-> << >>, err |-> TRUE]
       ELSE [code |-> 2, matched |-> ascii, err |-> FALSE]
  ELSE IF fail = "scan" /\ i = 1
       THEN [code |-> 2, matched |-> << >>, err |-> TRUE]
  ELSE IF LevenshteinDistance(ascii, ToLower(corpus[i])) <= t
       THEN [code |-> 0, matched |-> corpus[i], err |-> FALSE]
  ELSE scanRows(corpus, i + 1, ascii, t, fail)

\* step 1 of checkDomainReal
normalise(domainReal) ==
  LET lower == ToLower(domainReal)
      a == ToASCII(lower)
  IN IF a.err THEN lower ELSE a.s

\* checkDomainReal, with the values of its locals ascii and thresh and the
\* queries it has put to db;
\* fatal: the deferred rows.Close failed and log.Fatal ended the process
checkDomainReal(corpus, fail, domainReal) ==
  LET ascii == normalise(domainReal)
      l == ByteLen(ascii)
      none == [ascii |-> ascii, thresh |-> 0, scanned |-> FALSE, fatal |-> FALSE,
               queries |-> << "count" >>]
  IN IF fail = "count"
     THEN [code |-> 0, matched |-> << >>, err |-> TRUE] @@ none
     ELSE IF CountDomain(corpus, ascii) > 0
     THEN [code |-> 1, matched |-> ascii, err |-> FALSE] @@ none
     ELSE IF fail = "query"
     THEN [code |-> 2, matched |-> << >>, err |-> TRUE]
            @@ [none EXCEPT !.thresh = thresh(l),
                            !.queries = << "count", "rows" >>]
     ELSE scanRows(corpus, 1, ascii, thresh(l), fail)
            @@ [ascii |-> ascii, thresh |-> thresh(l), scanned |-> TRUE,
                fatal |-> fail = "close", queries |-> << "count", "rows" >>]

\* main.go: DomainAnalysisResult with its MatchedDomain
DomainResult(status, matchedDomain) ==
  DomainAnalysisResult(status, ImpactOf(status))
    @@ [MatchedDomain |-> matchedDomain]

\* a slip: the corpus is asked first and the allow-list looked at after
domainAnalysisOf_CorpusFirst(corpus, fail, domain) ==
  LET r == checkDomainReal(corpus, fail, domain) IN
  IF r.fatal
  THEN [sent |-> FALSE, payload |-> Nil, trusted |-> FALSE,
        fatal |-> TRUE, check |-> r, queries |-> r.queries]
  ELSE IF domain \in trustedProviders
  THEN [sent |-> TRUE, payload |-> DomainResult("freeMailMatch", domain),
        trusted |-> TRUE, fatal |-> FALSE, queries |-> r.queries]
  ELSE IF r.err
  THEN [sent |-> FALSE, payload |-> Nil, trusted |-> FALSE,
        fatal |-> FALSE, check |-> r, queries |-> r.queries]
  ELSE [sent |-> TRUE,
        payload |-> DomainResult(DomainStatus(r.code), r.matched),
        trusted |-> FALSE, fatal |-> FALSE, check |-> r, queries |-> r.queries]

\* performDomainAnalysis on its own: what it sends on ch, if anything, and
\* the queries put to db on the way
domainAnalysisOf(corpus, fail, domain) ==
  IF domain \in trustedProviders
  THEN [sent |-> TRUE, payload |-> DomainResult("freeMailMatch", domain),
        trusted |-> TRUE, fatal |-> FALSE, queries |-> << >>]
  ELSE LET r == checkDomainReal(corpus, fail, domain) IN
       IF r.fatal \/ r.err
       THEN [sent |-> FALSE, payload |-> Nil, trusted |-> FALSE,
             fatal |-> r.fatal, check |-> r, queries |-> r.queries]
       ELSE [sent |-> TRUE,
             payload |-> DomainResult(DomainStatus(r.code), r.matched),
             trusted |-> FALSE, fatal |-> FALSE, check |-> r,
             queries |-> r.queries]

\* the sender domains parseEmail can hand over: lower-case registrable
\* names, and the empty string when the From header does not parse
SenderDomains ==
  {<< >>, example_com, examp1e_com, gmail_com, mail_com, bucher_de,
   xn_bucher_de, my_shop_com}
  \cup {Pad(l) : l \in 5..MaxDomainLen}

\* the websites table, in the order the rows come back
Corpora ==
  {<< >>,
   << example_com, mail_com >>,
   << Example_com, bucher_de, my_shop_com, gmail_com >>,
   << xn_bucher_de, Pad(12), Pad(20) >>,
   << Pad(12), Pad(13), example_com >>}

DomainInit ==
  /\ RequestInit
  /\ GlobalInit
  /\ URLInit
  /\ call \in [fn : {"performDomainAnalysis"}, domain : SenderDomains,
               corpus : Corpora, fail : CorpusFailures]
  /\ ret = NoCall

performDomainAnalysisCall ==
  /\ call.fn = "performDomainAnalysis" /\ ret.fn = ""
  /\ ret' = [fn |-> call.fn]
             @@ domainAnalysisOf(call.corpus, call.fail, call.domain)
  /\ UNCHANGED << call, requestVars, globalVars, urlVars >>

DomainNext == performDomainAnalysisCall

DomainSpec == DomainInit /\ [][DomainNext]_vars

\* ---------------------------------------------------------- checkURLs
\* One call of checkURLs(ctx, u), request by request. ret holds where the
\* call is: pc, the requests sent to the scan platform so far, the number of
\* polls, and what it has returned
MaxPolls == 3

\* verdicts.overall of a scan, as the platform reports it
ScanResults ==
  [Malicious : BOOLEAN, Score : {-1, 0, 1},
   Categories : {<< >>, << "benign" >>, << "phishing" >>,
                 << "benign", "malware" >>}]

\* the loop over the categories
RECURSIVE anyBadCategory(_, _)
anyBadCategory(cats, i) ==
  IF i > Len(cats) THEN FALSE
  ELSE IF cats[i] = "phishing" \/ cats[i] = "malware" THEN TRUE
  ELSE anyBadCategory(cats, i + 1)

\* finalAppDecision of the cached-search path
finalAppDecisionCached(r0) ==
  IF r0.Malicious \/ r0.Score > 0 THEN TRUE
  ELSE anyBadCategory(r0.Categories, 1)

\* a slip: the polled path leaves the categories out
finalAppDecisionPolled_NoCategories(result) ==
  result.Malicious \/ result.Score > 0

\* finalAppDecision of the submit-and-poll path
finalAppDecisionPolled(result) ==
  IF result.Malicious \/ result.Score > 0 THEN TRUE
  ELSE anyBadCategory(result.Categories, 1)

\* &Verdict{Score, Cats, Report, PlatformVerdict, FinalDecision}
ScanVerdict(r, report, finalDecision) ==
  [type |-> "Verdict", Score |-> r.Score, Cats |-> r.Categories,
   Report |-> report, PlatformVerdict |-> r.Malicious,
   FinalDecision |-> finalDecision]

ScanError(msg) == [type |-> "error", msg |-> msg]

\* what the search request can come back with: the transport fails, a
\* status other than 200, a body that does not decode, no result, a result
SearchOutcomes ==
  [kind : {"transportError", "badStatus", "decodeError", "empty"}]
  \cup [kind : {"hit"}, r0 : ScanResults]

SubmitOutcomes ==
  {"transportError", "readError", "blocked", "badRequest", "badStatus",
   "decodeError", "noResultURL", "ok"}

PollOutcomes ==
  [kind : {"transportError", "notFound", "badStatus", "decodeError"}]
  \cup [kind : {"ok"}, result : ScanResults]

ScanInit ==
  /\ RequestInit
  /\ GlobalInit
  /\ URLInit
  /\ call \in [fn : {"checkURLs"}, u : FinalURLs, key : BOOLEAN]
  /\ ret = NoCall

ScanAt(pc) == call.fn = "checkURLs" /\ ret.fn = "checkURLs" /\ ret.pc = pc

ScanReturn(result) == [ret EXCEPT !.pc = "returned", !.result = result]

ScanUnchanged == UNCHANGED << call, requestVars, globalVars, urlVars >>

ScanStart ==
  [fn |-> "checkURLs", pc |-> "search", requests |-> << >>, polls |-> 0,
   result |-> Nil, last |-> "", search |-> [kind |-> ""]]

\* a slip: a scan found by the search is scanned again all the same
ScanSearch_SubmitOnHit ==
  /\ call.fn = "checkURLs" /\ ret.fn = ""
  /\ LET sent == [ScanStart EXCEPT !.requests = << "search" >>] IN
     IF ~call.key
     THEN ret' = [ScanStart EXCEPT !.pc = "returned",
                                   !.result = ScanError("URLSCAN_API_KEY not set")]
     ELSE \E o \in SearchOutcomes :
            /\ ctxDone => o.kind = "transportError"
            /\ ret' = IF o.kind = "transportError"
                      THEN [sent EXCEPT !.pc = "returned", !.search = o,
                                        !.last = o.kind,
                                        !.result = ScanError("execute search")]
                      ELSE [sent EXCEPT !.pc = "submit", !.search = o,
                                        !.last = o.kind]
  /\ ScanUnchanged

\* the API key test and the search for a scan of the last 7 days; with the
\* context done the request fails
ScanSearch ==
  /\ call.fn = "checkURLs" /\ ret.fn = ""
  /\ LET sent == [ScanStart EXCEPT !.requests = << "search" >>] IN
     IF ~call.key
     THEN ret' = [ScanStart EXCEPT !.pc = "returned",
                                   !.result = ScanError("URLSCAN_API_KEY not set")]
     ELSE \E o \in SearchOutcomes :
            /\ ctxDone => o.kind = "transportError"
            /\ ret' = CASE o.kind = "transportError" ->
                            [sent EXCEPT !.pc = "returned", !.search = o,
                                         !.last = o.kind,
                                         !.result = ScanError("execute search")]
                         [] o.kind = "hit" ->
                            [sent EXCEPT !.pc = "returned", !.search = o,
                                         !.last = o.kind,
                                         !.result = ScanVerdict(o.r0, "cached",
                                                      finalAppDecisionCached(o.r0))]
                         [] OTHER ->
                            [sent EXCEPT !.pc = "submit", !.search = o,
                                         !.last = o.kind]
  /\ ScanUnchanged

\* the POST of a new scan and the reading of its answer
ScanSubmit ==
  /\ ScanAt("submit")
  /\ \E o \in SubmitOutcomes :
       /\ ctxDone => o = "transportError"
       /\ LET sent == [ret EXCEPT !.requests = Append(@, "submit"), !.last = o] IN
          ret' = IF o = "ok" THEN [sent EXCEPT !.pc = "select"]
                 ELSE [sent EXCEPT !.pc = "returned", !.result = ScanError(o)]
  /\ ScanUnchanged

\* "case <-ctx.Done()" of the select
ScanPollCancelled ==
  /\ ScanAt("select") /\ ctxDone
  /\ ret' = ScanReturn(ScanError("polling cancelled"))
  /\ ScanUnchanged

\* "case <-pollTicker.C": five seconds have passed
ScanTick ==
  /\ ScanAt("select") /\ ret.polls < MaxPolls
  /\ ret' = [ret EXCEPT !.pc = "poll"]
  /\ ScanUnchanged

\* a slip: "not yet ready" is returned as a failure like any other status
ScanPoll_NotFoundFails ==
  /\ ScanAt("poll")
  /\ \E o \in PollOutcomes :
       /\ ctxDone => o.kind = "transportError"
       /\ LET sent == [ret EXCEPT !.requests = Append(@, "poll"),
                                  !.polls = @ + 1, !.last = o.kind] IN
          ret' = CASE o.kind = "transportError" ->
                        [sent EXCEPT !.pc = "select"]
                   [] o.kind = "ok" ->
                        [sent EXCEPT !.pc = "returned",
                                     !.result = ScanVerdict(o.result, "submitted",
                                                  finalAppDecisionPolled(o.result))]
                   [] OTHER ->
                        [sent EXCEPT !.pc = "returned", !.result = ScanError(o.kind)]
  /\ ScanUnchanged

\* one GET of the result URL and what is done with the answer
ScanPoll ==
  /\ ScanAt("poll")
  /\ \E o \in PollOutcomes :
       /\ ctxDone => o.kind = "transportError"
       /\ LET sent == [ret EXCEPT !.requests = Append(@, "poll"),
                                  !.polls = @ + 1, !.last = o.kind] IN
          ret' = CASE o.kind \in {"transportError", "notFound"} ->
                        [sent EXCEPT !.pc = "select"]
                   [] o.kind = "ok" ->
                        [sent EXCEPT !.pc = "returned",
                                     !.result = ScanVerdict(o.result, "submitted",
                                                  finalAppDecisionPolled(o.result))]
                   [] OTHER ->
                        [sent EXCEPT !.pc = "returned", !.result = ScanError(o.kind)]
  /\ ScanUnchanged

\* the context of the URL task is cancelled or its 3 minutes are over
ScanCtxDone ==
  /\ call.fn = "checkURLs" /\ ~urlCtxDone
  /\ ret.fn = "checkURLs" => ret.pc # "returned"
  /\ urlCtxDone' = TRUE
  /\ UNCHANGED << call, ret, requestVars, globalVars, upc, uniqueURLs,
                  finalUniqueURLs, gpc, verdictsChan >>

ScanNext ==
  \/ ScanSearch
  \/ ScanSubmit
  \/ ScanPollCancelled
  \/ ScanTick
  \/ ScanPoll
  \/ ScanCtxDone

ScanSpec == ScanInit /\ [][ScanNext]_vars

\* the deadline of context.WithTimeout comes, a request in flight is
\* answered, and the select takes a case that stays ready
ScanFairSpec ==
  /\ ScanSpec
  /\ WF_vars(ScanCtxDone)
  /\ WF_vars(ScanSearch) /\ WF_vars(ScanSubmit) /\ WF_vars(ScanPoll)
  /\ SF_vars(ScanPollCancelled)

\* --------------------------------------- the verdicts of a message's URLs
\* main.go:447-472 on the verdicts of up to MaxVerdicts URLs, each the
\* verdict checkURLs makes of what the platform reports
MaxVerdicts == 5

PlainScans ==
  {r \in ScanResults : r.Score = 0 /\ r.Categories \in {<< >>, << "phishing" >>}}

VerdictsOf(scans) ==
  [i \in 1..Len(scans) |->
     ScanVerdict(scans[i], i, finalAppDecisionPolled(scans[i]))]

VerdictsInit ==
  /\ RequestInit
  /\ GlobalInit
  /\ URLInit
  /\ call \in [fn : {"collectVerdicts"}, scans : SeqsUpTo(PlainScans, MaxVerdicts)]
  /\ ret = NoCall

collectVerdicts ==
  /\ call.fn = "collectVerdicts" /\ ret.fn = ""
  /\ ret' = [fn |-> call.fn, value |-> URLResultOf(VerdictsOf(call.scans))]
  /\ UNCHANGED << call, requestVars, globalVars, urlVars >>

VerdictsNext == collectVerdicts

VerdictsSpec == VerdictsInit /\ [][VerdictsNext]_vars

\* ------------------------------------------- the URLs that are looked up
\* main.go:396-428 on its own. A candidate as getURL finds it is told by
\* the address it stands for (id), the way it is written (plain, with HTML
\* entities, with blanks around it) and the extension of its path
MaxCandidates == 3

Candidates ==
  [id : {"a", "b"}, form : {"plain", "escaped"}, ext : {""}]
  \cup {[id |-> "a", form |-> "padded", ext |-> ""],
        [id |-> "a", form |-> "plain", ext |-> ".PNG"],
        [id |-> "bad", form |-> "plain", ext |-> ""]}

\* strings.TrimSpace, html.UnescapeString
TrimSpace(u) == IF u.form = "padded" THEN [u EXCEPT !.form = "plain"] ELSE u

UnescapeString(u) == IF u.form = "escaped" THEN [u EXCEPT !.form = "plain"] ELSE u

\* url.Parse fails on the candidate that is no URL
urlParseFails(u) == u.id = "bad"

\* strings.ToLower(filepath.Ext(parsedURL.Path))
LowerExt(u) == IF u.ext = ".PNG" THEN ".png" ELSE u.ext

ignoredExtensions ==
  {".png", ".jpg", ".jpeg", ".gif", ".webp", ".css", ".svg", ".woff",
   ".woff2", ".ttf", ".js"}

\* the first loop, from the i-th candidate on
RECURSIVE collectUnique(_, _, _)
collectUnique(initialURLs, i, unique) ==
  IF i > Len(initialURLs) THEN unique
  ELSE LET decodedURL == UnescapeString(TrimSpace(initialURLs[i])) IN
       IF ~urlParseFails(decodedURL) /\ LowerExt(decodedURL) \notin ignoredExtensions
       THEN collectUnique(initialURLs, i + 1, unique \cup {decodedURL})
       ELSE collectUnique(initialURLs, i + 1, unique)

\* what getFinalURL answers for an address: "" with an error, or the final URL
Resolutions == [{"a", "b"} -> {""} \cup FinalURLs]

\* a slip: one lookup for each candidate that resolves
startedLookups_PerCandidate(unique, resolve) ==
  [f \in FinalURLs |-> Cardinality({u \in unique : resolve[u.id] = f})]

\* the second and third loop and the go statements: the number of
\* goroutines started for each final URL
startedLookups(unique, resolve) ==
  LET finalURLsEmail == {resolve[u.id] : u \in unique} \ {""} IN
  [f \in FinalURLs |-> IF f \in finalURLsEmail THEN 1 ELSE 0]

RECURSIVE SumOver(_, _)
SumOver(f, S) ==
  IF S = {} THEN 0
  ELSE LET x == CHOOSE y \in S : TRUE IN f[x] + SumOver(f, S \ {x})

\* the events sent on eventChan up to the go statements
collectURLs(initialURLs, resolve) ==
  LET unique == collectUnique(initialURLs, 1, {})
      lookups == startedLookups(unique, resolve)
  IN [uniqueURLs |-> unique, lookups |-> lookups,
      events |-> << CheckResult("urlScanStarted",
                                URLScanStartInfo(SumOver(lookups, FinalURLs))) >>]

CollectInit ==
  /\ RequestInit
  /\ GlobalInit
  /\ URLInit
  /\ call \in [fn : {"collectURLs"},
               initialURLs : SeqsUpTo(Candidates, MaxCandidates),
               resolve : Resolutions]
  /\ ret = NoCall

collectURLsCall ==
  /\ call.fn = "collectURLs" /\ ret.fn = ""
  /\ ret' = [fn |-> call.fn] @@ collectURLs(call.initialURLs, call.resolve)
  /\ UNCHANGED << call, requestVars, globalVars, urlVars >>

CollectNext == collectURLsCall

CollectSpec == CollectInit /\ [][CollectNext]_vars

\* ----------------------- Frontend/chrome-extension/core/analysis-core.js
\* json.Marshal of a payload as the page's JSON.parse gives it back: the
\* keys are those of the json tags, and "error" is left out when empty
JSONOfPart(p) == [scoreImpact |-> p.ScoreImpact]

JSONOf(p) ==
  CASE p.type = "maxScore" -> [maxScore |-> p.maxScore]
    [] p.type = "DomainAnalysisResult" ->
         [status |-> p.Status, scoreImpact |-> p.ScoreImpact]
    [] p.type = "URLAnalysisResult" ->
         [status |-> p.Status, maliciousCount |-> p.MaliciousCount,
          scoreImpact |-> p.ScoreImpact]
    [] p.type = "ExecutableAnalysisResult" ->
         [found |-> p.Found, scoreImpact |-> p.ScoreImpact]
    [] p.type = "ContentAnalysisResult" ->
         LET body == [companyIdentification |-> JSONOfPart(p.CompanyIdentification),
                      companyVerification |-> JSONOfPart(p.CompanyVerification),
                      realismAnalysis |-> JSONOfPart(p.RealismAnalysis),
                      contactMethodAnalysis |-> JSONOfPart(p.ContactMethodAnalysis)]
         IN IF p.Error = "" THEN body ELSE body @@ [error |-> p.Error]
    [] p.type = "URLScanStartInfo" -> [total |-> p.Total]
    [] p.type = "URLScanUpdate" ->
         IF p.Error = "" THEN [url |-> p.URL, finalDecision |-> p.FinalDecision]
         ELSE [url |-> p.URL, finalDecision |-> p.FinalDecision, error |-> p.Error]

\* the ScoreResult of the finalScores event
JSONOfScores(sc) ==
  [baseScore |-> sc.BaseScore, finalScoreNormal |-> sc.FinalScoreNormal,
   finalScoreRendered |-> sc.FinalScoreRendered,
   maxPossibleScore |-> sc.MaxPossibleScore]

\* a session id; 0 stands for null
NoSession == 0

\* the module's state when it is loaded (analysis-core.js:3-27); shown is
\* what the two score cards display, complete the analysisComplete events
\* dispatched on the document
CoreLoaded ==
  [currentScores |-> [normal |-> 0, rendered |-> 0, base |-> 0, max |-> 100,
                      sessionId |-> NoSession],
   activeSessionId |-> NoSession,
   latestChecks |-> DEFAULT_CHECKS,
   shown |-> [normal |-> 0, rendered |-> 0],
   complete |-> << >>]

shouldRender(core, checkKey) ==
  checkKey \in DOMAIN core.latestChecks /\ core.latestChecks[checkKey]

\* updateScoresUI(finalScores); NoFinal when called without an argument
NoFinal == [none |-> TRUE]

updateScoresUI(core, finalScores) ==
  LET cs == core.currentScores
      isFinal == "none" \notin DOMAIN finalScores
      normalScore == IF isFinal THEN finalScores.finalScoreNormal
                                ELSE cs.base + cs.normal
      renderedScore == IF isFinal THEN finalScores.finalScoreRendered
                                  ELSE cs.base + cs.rendered
  IN IF cs.sessionId # NoSession /\ core.activeSessionId # NoSession
          /\ cs.sessionId # core.activeSessionId
     THEN core
     ELSE [core EXCEPT
             !.complete = IF isFinal
                          THEN Append(@, [normalScore |-> normalScore,
                                          renderedScore |-> renderedScore,
                                          maxScore |-> cs.max,
                                          sessionId |-> cs.sessionId])
                          ELSE @,
             !.shown = [normal |-> normalScore, rendered |-> renderedScore]]

\* "payload.x.scoreImpact || 0"
ContentImpacts(payload) ==
  payload.companyIdentification.scoreImpact + payload.companyVerification.scoreImpact
    + payload.realismAnalysis.scoreImpact + payload.contactMethodAnalysis.scoreImpact

\* a slip: base is set, not added to
AddToBase_Overwrite(core, payload) ==
  updateScoresUI([core EXCEPT !.currentScores.base = payload.scoreImpact], NoFinal)

\* "currentScores.base += payload.scoreImpact; ...; updateScoresUI()"
AddToBase(core, payload) ==
  updateScoresUI([core EXCEPT !.currentScores.base = @ + payload.scoreImpact], NoFinal)

\* eventHandlers[eventName](payload); the progress events of the URL scan
\* change only the list of scanned URLs
eventHandlers(core, eventName, payload) ==
  CASE eventName = "maxScore" ->
         [core EXCEPT !.currentScores.max = payload.maxScore]
    [] eventName = "domainAnalysis" ->
         IF ~shouldRender(core, "checkDomain") THEN core ELSE AddToBase(core, payload)
    [] eventName = "urlAnalysis" ->
         IF ~shouldRender(core, "checkUrls") THEN core ELSE AddToBase(core, payload)
    [] eventName = "executableAnalysis" ->
         IF ~shouldRender(core, "checkAttachments") THEN core
         ELSE AddToBase(core, payload)
    [] eventName = "textAnalysis" ->
         IF ~shouldRender(core, "checkTextAnalysis") THEN core
         ELSE IF "error" \in DOMAIN payload THEN core
         ELSE updateScoresUI([core EXCEPT !.currentScores.normal =
                                             @ + ContentImpacts(payload)], NoFinal)
    [] eventName = "renderedAnalysis" ->
         IF ~shouldRender(core, "checkRenderedAnalysis") THEN core
         ELSE IF "error" \in DOMAIN payload THEN core
         ELSE updateScoresUI([core EXCEPT !.currentScores.rendered =
                                             @ + ContentImpacts(payload)], NoFinal)
    [] eventName = "finalScores" -> updateScoresUI(core, payload)
    [] OTHER -> core

\* a slip: the session of the event is not looked at
handleStreamEvent_NoSessionTest(core, eventName, payload, sessionId) ==
  eventHandlers(core, eventName, payload)

handleStreamEvent(core, eventName, payload, sessionId) ==
  IF sessionId # NoSession /\ core.activeSessionId # NoSession
       /\ sessionId # core.activeSessionId
  THEN core
  ELSE eventHandlers(core, eventName, payload)

\* initializeUI(containerId, sessionId, settings)
initializeUI(core, sessionId, settings) ==
  [core EXCEPT
     !.latestChecks = mergeChecks(settings),
     !.currentScores = [normal |-> 0, rendered |-> 0, base |-> 0, max |-> 100,
                        sessionId |-> sessionId],
     !.activeSessionId = IF sessionId # NoSession THEN sessionId ELSE @,
     !.shown = [normal |-> 0, rendered |-> 0]]

\* streamAnalysis up to its fetch; fresh is what crypto.randomUUID() gives
streamAnalysisBegin(core, settings, sessionId, fresh) ==
  LET active == IF sessionId # NoSession THEN sessionId ELSE fresh IN
  [core EXCEPT !.latestChecks = mergeChecks(settings),
               !.activeSessionId = active,
               !.currentScores.sessionId = active]

\* one message of the stream in the read loop of streamAnalysis:
\* processSSEMessage(part, activeSessionId)
processSSEMessage(core, eventName, payload) ==
  handleStreamEvent(core, eventName, payload, core.activeSessionId)

\* ------------------------------ one analysis from request to finalScores
\* what the tasks delivered to the handler, the content tasks with one of
\* the answers the request model uses
StreamDataMaps ==
  LET content == {ErrorContent("Failed to analyse email content."), ZeroContent}
                   \cup {ContentResult(c.whoResult, c.verified, c.phones) :
                           c \in ContentCases}
  IN {m \in DataMaps :
        /\ m["textAnalysis"] \in {Nil} \cup content
        /\ m["renderedAnalysis"] \in {Nil} \cup content}

\* the settings the caller passes: none, all five named and switched on,
\* the URL check switched off
SettingsCases ==
  { << >>, DEFAULT_CHECKS, [DEFAULT_CHECKS EXCEPT !["checkUrls"] = FALSE] }

FlowInit ==
  /\ RequestInit
  /\ GlobalInit
  /\ URLInit
  /\ call \in [fn : {"handleAnalysisFlow"}, data : StreamDataMaps,
               settings : SettingsCases]
  /\ ret = NoCall

FlowUnchanged == UNCHANGED << call, requestVars, globalVars, urlVars >>

\* analysis-ui-flow.js: handleAnalysisFlow to the fetch of streamAnalysis
handleAnalysisFlow ==
  /\ call.fn = "handleAnalysisFlow" /\ ret.fn = ""
  /\ ret' = [fn |-> "handleAnalysisFlow", pc |-> "maxScore", delivered |-> {},
             final |-> ZeroScores,
             core |-> streamAnalysisBegin(initializeUI(CoreLoaded, 1, call.settings),
                                          call.settings, 1, 1)]
  /\ FlowUnchanged

\* the first message of the stream is maxScore
FlowMaxScore ==
  /\ ret.fn = "handleAnalysisFlow" /\ ret.pc = "maxScore"
  /\ ret' = [ret EXCEPT
               !.pc = "analysis",
               !.core = processSSEMessage(@, "maxScore",
                          JSONOf([type |-> "maxScore", maxScore |-> MaxScore]))]
  /\ FlowUnchanged

\* the results of the tasks come in any order
FlowResult ==
  /\ ret.fn = "handleAnalysisFlow" /\ ret.pc = "analysis"
  /\ \E n \in EventNames \ ret.delivered :
       /\ call.data[n] # Nil
       /\ ret' = [ret EXCEPT
                    !.delivered = @ \cup {n},
                    !.core = processSSEMessage(@, n, JSONOf(call.data[n]))]
  /\ FlowUnchanged

\* finalScores closes the stream
FlowFinalScores ==
  /\ ret.fn = "handleAnalysisFlow" /\ ret.pc = "analysis"
  /\ \A n \in EventNames \ ret.delivered : call.data[n] = Nil
  /\ ret' = [ret EXCEPT
               !.pc = "done",
               !.final = calculateFinalScores(call.data),
               !.core = processSSEMessage(@, "finalScores",
                          JSONOfScores(calculateFinalScores(call.data)))]
  /\ FlowUnchanged

FlowNext ==
  \/ handleAnalysisFlow
  \/ FlowMaxScore
  \/ FlowResult
  \/ FlowFinalScores

FlowSpec == FlowInit /\ [][FlowNext]_vars

\* ------------------- the content script in a Gmail tab (unnamed/part_004)
\* with the background script and the page's analysis module
MaxSessions == 2

MaxStreams == 2

\* how often the user opens a message
MaxOpens == 2

MaxInbox == 2

MessageIds == {"m1", "m2"}

\* the stream the backend answers with, for every message: maxScore, the
\* domain result, finalScores
TabData ==
  [n \in EventNames |->
     IF n = "domainAnalysis"
     THEN DomainAnalysisResult("DomainExactMatch", ImpactOf("DomainExactMatch"))
     ELSE Nil]

TabEvents ==
  << [name |-> "maxScore",
      payload |-> JSONOf([type |-> "maxScore", maxScore |-> MaxScore])],
     [name |-> "domainAnalysis", payload |-> JSONOf(TabData["domainAnalysis"])],
     [name |-> "finalScores",
      payload |-> JSONOfScores(calculateFinalScores(TabData))] >>

\* accountsAuthState[email] as chrome.storage.sync holds it: no entry (a new
\* or reset account), authorized, blocked with "don't ask again"
AuthStates ==
  { [status |-> "", dontAskAgain |-> FALSE],
    [status |-> "authorized", dontAskAgain |-> FALSE],
    [status |-> "blocked", dontAskAgain |-> TRUE] }

NoStream == [pc |-> "none", session |-> NoSession, signal |-> 0, m |-> "", next |-> 1]

\* the tab when the content script has been loaded (part_004:5-9)
TabLoaded(state, mode) ==
  [fn |-> "tab",
   analysisMode |-> mode,
   state |-> state,
   analyzedMessageIds |-> {},
   currentMessageId |-> "",
   opens |-> 0,
   resets |-> 0,
   currentSessionId |-> NoSession,
   currentAbortController |-> 0,
   aborted |-> {},
   uuids |-> 0,
   controllers |-> 0,
   pendingStart |-> {},
   pendingImport |-> {},
   button |-> "",
   authUI |-> "",
   toBackground |-> {},
   requested |-> {},
   toTab |-> << >>,
   core |-> CoreLoaded,
   streams |-> [s \in 1..MaxStreams |-> NoStream],
   errorShown |-> FALSE]

TabInit ==
  /\ RequestInit
  /\ GlobalInit
  /\ URLInit
  /\ call = [fn |-> "tab"]
  /\ ret \in {TabLoaded(st, mode) : st \in AuthStates, mode \in {"auto", "manual"}}

TabUnchanged == UNCHANGED << call, requestVars, globalVars, urlVars >>

\* part_004:263-287  the MutationObserver sees another message opened; in
\* auto mode startAnalysis is called, otherwise the Check button is shown
ObserveMessage(m) ==
  /\ m # ret.currentMessageId
  /\ ret.opens < MaxOpens
  /\ ret' = [ret EXCEPT
               !.currentMessageId = m,
               !.opens = @ + 1,
               !.authUI = "",
               !.button = IF ret.analysisMode = "auto" THEN "" ELSE m,
               !.pendingStart = IF ret.analysisMode = "auto" THEN @ \cup {m} ELSE @]
  /\ TabUnchanged

\* part_004:293-306  the click on the Check button
ClickCheck ==
  /\ ret.button # ""
  /\ ret' = [ret EXCEPT !.button = "", !.pendingStart = @ \cup {ret.button}]
  /\ TabUnchanged

\* a slip: the test of the stored status is left out
startAnalysis_NoAuthTest(m) ==
  /\ m \in ret.pendingStart
  /\ ret' = IF ret.state.status = "blocked" /\ ret.state.dontAskAgain
            THEN [ret EXCEPT !.pendingStart = @ \ {m}]
            ELSE IF m \in ret.analyzedMessageIds
            THEN [ret EXCEPT !.pendingStart = @ \ {m}]
            ELSE [ret EXCEPT !.pendingStart = @ \ {m},
                             !.analyzedMessageIds = @ \cup {m},
                             !.pendingImport = @ \cup {[m |-> m, seen |-> ret.state.status]}]
  /\ TabUnchanged

\* part_004:62-94  startAnalysis, the callback of chrome.storage.sync.get
startAnalysis(m) ==
  /\ m \in ret.pendingStart
  /\ ret' = IF ret.state.status = "blocked" /\ ret.state.dontAskAgain
            THEN [ret EXCEPT !.pendingStart = @ \ {m}]
            ELSE IF m \in ret.analyzedMessageIds
            THEN [ret EXCEPT !.pendingStart = @ \ {m}]
            ELSE IF ret.state.status # "authorized"
            THEN [ret EXCEPT !.pendingStart = @ \ {m}, !.authUI = m]
            ELSE [ret EXCEPT !.pendingStart = @ \ {m},
                             !.analyzedMessageIds = @ \cup {m},
                             !.pendingImport = @ \cup {[m |-> m, seen |-> ret.state.status]}]
  /\ TabUnchanged

\* part_004:96-107  the module is imported: a new session, the running
\* request aborted, GET_RAW_MESSAGE sent
startAnalysisImported(p) ==
  /\ p \in ret.pendingImport
  /\ ret.uuids < MaxSessions
  /\ LET id == ret.uuids + 1
         request == [type |-> "GET_RAW_MESSAGE", m |-> p.m, seen |-> p.seen] IN
     ret' = [ret EXCEPT
               !.pendingImport = @ \ {p},
               !.uuids = id,
               !.currentSessionId = id,
               !.core = initializeUI(@, id, << >>),
               !.aborted = IF ret.currentAbortController # 0
                           THEN @ \cup {ret.currentAbortController} ELSE @,
               !.controllers = @ + 1,
               !.currentAbortController = ret.controllers + 1,
               !.toBackground = @ \cup {request},
               !.requested = @ \cup {request}]
  /\ TabUnchanged

\* background.js:21-48  handleGetRawMessage: the raw message, or an error
handleGetRawMessage(q) ==
  /\ q \in ret.toBackground /\ q.type = "GET_RAW_MESSAGE"
  /\ Len(ret.toTab) < MaxInbox
  /\ \E answer \in {[type |-> "EML_DATA", m |-> q.m],
                     [type |-> "EML_ERROR", error |-> "AUTH_REQUIRED"],
                     [type |-> "EML_ERROR", error |-> "Google API Error: 500"]} :
       ret' = [ret EXCEPT !.toBackground = @ \ {q}, !.toTab = Append(@, answer)]
  /\ TabUnchanged

\* part_004:347-360  the Authenticate button of the auth modal, which hides
\* the modal
ClickAuthenticate ==
  /\ ret.authUI # ""
  /\ ret' = [ret EXCEPT
               !.authUI = "",
               !.toBackground = @ \cup {[type |-> "TRIGGER_INTERACTIVE_AUTH",
                                         m |-> ret.authUI]}]
  /\ TabUnchanged

\* part_004:361-372  Cancel, with or without "don't ask me again"
ClickCancel ==
  /\ ret.authUI # ""
  /\ \E dontAsk \in BOOLEAN :
       ret' = [ret EXCEPT
                 !.authUI = "",
                 !.state = IF dontAsk THEN [status |-> "blocked", dontAskAgain |-> TRUE]
                                      ELSE @]
  /\ TabUnchanged

\* background.js:50-76  handleInteractiveAuth
handleInteractiveAuth(q) ==
  /\ q \in ret.toBackground /\ q.type = "TRIGGER_INTERACTIVE_AUTH"
  /\ Len(ret.toTab) = 0
  /\ \E ok \in BOOLEAN :
       ret' = [ret EXCEPT
                 !.toBackground = @ \ {q},
                 !.toTab = IF ok THEN << [type |-> "AUTH_SUCCESS"],
                                         [type |-> "EML_DATA", m |-> q.m] >>
                                 ELSE << [type |-> "EML_ERROR",
                                          error |-> "AUTH_REQUIRED"] >>]
  /\ TabUnchanged

\* options.js:60-72  the account's entry is removed on the options page
\* (once)
OptionsReset ==
  /\ ret.state.status # "" /\ ret.resets = 0
  /\ ret' = [ret EXCEPT !.state = [status |-> "", dontAskAgain |-> FALSE],
                        !.resets = 1]
  /\ TabUnchanged

\* part_004:132-152 and analysis-ui-flow.js: EML_DATA starts the analysis
\* flow with the current session (or a new one) and the current controller
OnEmlData ==
  /\ Len(ret.toTab) > 0 /\ Head(ret.toTab).type = "EML_DATA"
  /\ \E s \in 1..MaxStreams :
       /\ ret.streams[s].pc = "none"
       /\ \A r \in 1..(s - 1) : ret.streams[r].pc # "none"
       /\ ret.currentSessionId = NoSession => ret.uuids < MaxSessions
       /\ LET fresh == ret.uuids + 1
              sessionId == IF ret.currentSessionId # NoSession
                           THEN ret.currentSessionId ELSE fresh
              core == streamAnalysisBegin(initializeUI(ret.core, sessionId, << >>),
                                          << >>, sessionId, fresh)
              signal == ret.currentAbortController
          IN ret' = [ret EXCEPT
                       !.toTab = Tail(@),
                       !.uuids = IF ret.currentSessionId = NoSession THEN fresh ELSE @,
                       !.core = core,
                       !.streams[s] = [pc |-> "reading", session |-> core.activeSessionId,
                                       signal |-> signal, m |-> Head(ret.toTab).m,
                                       next |-> 1]]
  /\ TabUnchanged

\* part_004:153-198  EML_ERROR
OnEmlError ==
  /\ Len(ret.toTab) > 0 /\ Head(ret.toTab).type = "EML_ERROR"
  /\ ret' = IF Head(ret.toTab).error = "AUTH_REQUIRED"
            THEN [ret EXCEPT
                    !.toTab = Tail(@),
                    !.analyzedMessageIds = @ \ {ret.currentMessageId},
                    !.authUI = IF ret.state.status = "blocked" /\ ret.state.dontAskAgain
                               THEN @ ELSE ret.currentMessageId]
            ELSE [ret EXCEPT !.toTab = Tail(@)]
  /\ TabUnchanged

\* part_004:199-224  AUTH_SUCCESS: the account is stored as authorized
OnAuthSuccess ==
  /\ Len(ret.toTab) > 0 /\ Head(ret.toTab).type = "AUTH_SUCCESS"
  /\ ret' = [ret EXCEPT
               !.toTab = Tail(@),
               !.authUI = "",
               !.state = [status |-> "authorized", dontAskAgain |-> FALSE]]
  /\ TabUnchanged

\* analysis-core.js:125-147  one turn of the read loop of a stream: the
\* read fails when the request was aborted, otherwise the next message is
\* processed
StreamRead(s) ==
  /\ ret.streams[s].pc = "reading"
  /\ LET st == ret.streams[s] IN
     IF st.signal # 0 /\ st.signal \in ret.aborted
     THEN ret' = [ret EXCEPT !.streams[s].pc = "failed", !.errorShown = TRUE]
     ELSE ret' = [ret EXCEPT
                    !.streams[s].next = @ + 1,
                    !.streams[s].pc = IF st.next = Len(TabEvents) THEN "done" ELSE @,
                    !.core = processSSEMessage(@, TabEvents[st.next].name,
                                               TabEvents[st.next].payload)]
  /\ TabUnchanged

TabNext ==
  \/ \E m \in MessageIds : ObserveMessage(m)
  \/ ClickCheck
  \/ \E m \in MessageIds : startAnalysis(m)
  \/ \E p \in ret.pendingImport : startAnalysisImported(p)
  \/ \E q \in ret.toBackground : handleGetRawMessage(q)
  \/ ClickAuthenticate
  \/ ClickCancel
  \/ \E q \in ret.toBackground : handleInteractiveAuth(q)
  \/ OptionsReset
  \/ OnEmlData
  \/ OnEmlError
  \/ OnAuthSuccess
  \/ \E s \in 1..MaxStreams : StreamRead(s)

TabSpec == TabInit /\ [][TabNext]_vars

\* =================================================================== 
\* background.js: the raw message is fetched from the Gmail API and the
\* outcome is sent to the tab.  An error message is the sequence of its
\* parts between ':' ; a text is the sequence of its words.

Emails == {"a@x.com", "b@x.com"}

\* the answers of the Gmail API to the fetch of a raw message
ErrorTexts ==
  {[json |-> FALSE, message |-> << >>],
   [json |-> TRUE, message |-> << >>],
   [json |-> TRUE, message |-> << "Requested", "entity", "was", "not", "found." >>],
   [json |-> TRUE, message |-> << "Delegation", "denied", "for", "nobody" >>]}
  \cup {[json |-> TRUE, message |-> << "Delegation", "denied", "for", e >>] : e \in Emails}
  \cup {[json |-> TRUE, message |-> << "delegation", "denied", "for", "b@x.com" >>]}

NoText == [json |-> FALSE, message |-> << >>]

Responses ==
  {[ok |-> TRUE, status |-> "200", raw |-> r, text |-> NoText] : r \in {"", "a-b_c"}}
  \cup {[ok |-> FALSE, status |-> s, raw |-> "", text |-> NoText] : s \in {"401", "403"}}
  \cup {[ok |-> FALSE, status |-> "400", raw |-> "", text |-> t] : t \in ErrorTexts}

\* the outcomes of chrome.identity.getAuthToken and launchWebAuthFlow: a
\* token, or the message of the error
TokenOutcomes ==
  {[ok |-> TRUE, message |-> << >>],
   [ok |-> FALSE, message |-> << "OAuth2 not granted or revoked." >>],
   [ok |-> FALSE, message |-> << "The user is not signed in." >>]}

FlowOutcomes ==
  {[ok |-> TRUE, message |-> << >>],
   [ok |-> FALSE, message |-> << "User interaction required." >>],
   [ok |-> FALSE, message |-> << "Auth flow failed or closed" >>],
   [ok |-> FALSE, message |-> << "Invalid redirect URL" >>]}

Resolved(value) == [threw |-> FALSE, value |-> value, message |-> << >>]
Rejected(message) == [threw |-> TRUE, value |-> "", message |-> message]

\* background.js:83-94 and 96-130  a token, or the rejection
getAuthToken(outcome) ==
  IF outcome.ok THEN Resolved("token") ELSE Rejected(outcome.message)

launchAuthFlow(outcome) ==
  IF outcome.ok THEN Resolved("token") ELSE Rejected(outcome.message)

\* background.js:157  data.raw.replace(/-/g, '+').replace(/_/g, '/')
Base64Standard(raw) == IF raw = "a-b_c" THEN "a+b/c" ELSE raw

LowerWord(w) == IF w = "Delegation" THEN "delegation" ELSE w

\* background.js:146  msg.match(/Delegation denied for ([^\s@]+@[^\s@]+)/i):
\* the addresses captured
delegationMatch(msg) ==
  {msg[i + 3] : i \in {j \in 1..Len(msg) :
                         /\ j + 3 <= Len(msg)
                         /\ LowerWord(msg[j]) = "delegation"
                         /\ msg[j + 1] = "denied"
                         /\ msg[j + 2] = "for"
                         /\ msg[j + 3] \in Emails}}

\* background.js:143-150  the try block: what it throws, << >> if it
\* runs to its end
DelegationTry(errorText) ==
  IF ~errorText.json THEN << "SyntaxError" >>
  ELSE IF delegationMatch(errorText.message) # {}
  THEN << "WRONG_ACCOUNT", CHOOSE e \in delegationMatch(errorText.message) : TRUE >>
  ELSE << >>

\* background.js:132-161  fetchRawMessage; the catch of line 151 is empty,
\* so whatever the try block threw is dropped and line 153 is reached
fetchRawMessage(response) ==
  IF ~response.ok
  THEN IF response.status \in {"401", "403"}
       THEN Rejected(<< "AUTH_REQUIRED" >>)
       ELSE LET caught == DelegationTry(response.text) IN
            Rejected(<< "Google API Error", response.status >>)
  ELSE IF response.raw # ""
  THEN Resolved(Base64Standard(response.raw))
  ELSE Rejected(<< "Invalid API response format." >>)

\* msg.includes(text), for the texts handleError looks for
Includes(msg, text) ==
  \E i \in 1..Len(msg) :
    \/ text = "User interaction required" /\ msg[i] = "User interaction required."
    \/ text = "user is not signed in" /\ msg[i] = "The user is not signed in."
    \/ text = "Auth flow failed" /\ msg[i] = "Auth flow failed or closed"

\* background.js:163-192  handleError: the messages sent to the tab
handleError(msg, email, tabId) ==
  LET isAuthError == \/ msg = << "AUTH_REQUIRED" >>
                     \/ Includes(msg, "User interaction required")
                     \/ Includes(msg, "user is not signed in")
                     \/ Includes(msg, "Auth flow failed") IN
  IF tabId = 0 THEN << >>
  ELSE IF Len(msg) >= 2 /\ msg[1] = "WRONG_ACCOUNT"
  THEN << [type |-> "EML_ERROR", error |-> << "WRONG_ACCOUNT" >>,
           email |-> email, actualEmail |-> msg[2]] >>
  ELSE IF isAuthError
  THEN << [type |-> "EML_ERROR", error |-> << "AUTH_REQUIRED" >>,
           email |-> email, actualEmail |-> ""] >>
  ELSE << [type |-> "EML_ERROR", error |-> msg, email |-> "", actualEmail |-> ""] >>

EmlData(eml) == [type |-> "EML_DATA", eml |-> eml]

\* background.js:21-48  handleGetRawMessage: the native token first, whose
\* failure is ignored, then the silent web flow for the address
GetRawMessageSent(c) ==
  LET token == getAuthToken(c.token)
      data == IF token.threw THEN token ELSE fetchRawMessage(c.nativeResponse)
      webToken == launchAuthFlow(c.webToken)
      webData == IF webToken.threw THEN webToken ELSE fetchRawMessage(c.webResponse) IN
  IF ~data.threw THEN << EmlData(data.value) >>
  ELSE IF c.email # ""
  THEN IF ~webData.threw THEN << EmlData(webData.value) >>
       ELSE handleError(webData.message, c.email, c.tabId)
  ELSE handleError(<< "AUTH_REQUIRED" >>, c.email, c.tabId)

\* background.js:50-76  handleInteractiveAuth
InteractiveAuthSent(c) ==
  LET token == IF c.email # "" THEN launchAuthFlow(c.webToken) ELSE getAuthToken(c.token)
      data == IF token.threw THEN token
              ELSE fetchRawMessage(IF c.email # "" THEN c.webResponse
                                   ELSE c.nativeResponse) IN
  IF ~data.threw
  THEN IF c.tabId # 0 THEN << [type |-> "AUTH_SUCCESS"], EmlData(data.value) >> ELSE << >>
  ELSE handleError(data.message, c.email, c.tabId)

BackgroundInit ==
  /\ RequestInit
  /\ GlobalInit
  /\ URLInit
  /\ call \in [fn : {"GET_RAW_MESSAGE", "TRIGGER_INTERACTIVE_AUTH"},
               email : Emails \cup {""},
               tabId : {0, 1},
               token : TokenOutcomes,
               nativeResponse : Responses,
               webToken : FlowOutcomes,
               webResponse : Responses]
  /\ ret = NoCall

\* background.js:1-6  the listener hands GET_RAW_MESSAGE to its handler
onGetRawMessage ==
  /\ call.fn = "GET_RAW_MESSAGE" /\ ret.fn = ""
  /\ ret' = [fn |-> call.fn, sent |-> GetRawMessageSent(call)]
  /\ UNCHANGED << call, requestVars, globalVars, urlVars >>

\* background.js:8-12  and TRIGGER_INTERACTIVE_AUTH to its handler
onTriggerInteractiveAuth ==
  /\ call.fn = "TRIGGER_INTERACTIVE_AUTH" /\ ret.fn = ""
  /\ ret' = [fn |-> call.fn, sent |-> InteractiveAuthSent(call)]
  /\ UNCHANGED << call, requestVars, globalVars, urlVars >>

BackgroundNext == onGetRawMessage \/ onTriggerInteractiveAuth

BackgroundSpec == BackgroundInit /\ [][BackgroundNext]_vars

\* =================================================================== claims
\* the events whose frame has been written completely, in order
DataLines == SelectSeq(out, LAMBDA l : l.part = "data")

Stream == [i \in 1..Len(DataLines) |-> DataLines[i].ev]

Count(name) == Cardinality({i \in 1..Len(Stream) : Stream[i].EventName = name})

AnalysisStream == SelectSeq(Stream, LAMBDA e : e.EventName \in EventNames)

TaskOf(n) == CHOOSE t \in Tasks : EventOf(t) = n

\* what the tasks produced, whatever the order they finished in
TaskResults == [n \in EventNames |-> tres[TaskOf(n)]]

Aggregated == hpc \in {"sendFinal", "closeEvents", "waitWriter", "returned"}

\* the request is over on the path where the corpus opened: the handler has
\* returned, or the process is gone
Over == hpc \in {"returned", "exited"}

FinalScoresEvent == CheckResult("finalScores", scores)

IsErrorPayload(payload) ==
  payload.type = "ContentAnalysisResult" /\ payload.Error # ""

\* what a task's payload adds to the scores
ContributionOf(payload) ==
  CASE payload.type = "nil" -> 0
    [] payload.type = "ContentAnalysisResult" -> ContentSum(payload)
    [] OTHER -> payload.ScoreImpact

\* C1: on the path where the corpus opens, exactly one finalScores event is
\* written and it is the last event of the stream: it is never written twice,
\* no line of another event follows a line of it, and when the request is
\* over it is there, once, as the last event
C1_ExactlyOneFinalScoresLast ==
  /\ Count("finalScores") <= 1
  /\ \A i, j \in 1..Len(out) :
       (i < j /\ out[i].ev.EventName = "finalScores")
         => out[j].ev.EventName = "finalScores"
  /\ Over =>
       /\ Count("finalScores") = 1
       /\ Stream[Len(Stream)].EventName = "finalScores"

\* C2: the request is never over before the finalScores event has been
\* written and the event channel closed (the handler does not stop short of
\* the closing event)
C2_NoStopBeforeFinalScores ==
  Over => (eventClosed /\ \E i \in 1..Len(out) :
                            out[i] = Line("data", FinalScoresEvent))

\* C3: the scores are computed only when all five tasks have returned and
\* resultsChan is closed, from a map holding every delivered result, and the
\* map is not written afterwards
C3_AggregateAfterAllTasks ==
  Aggregated =>
    /\ \A t \in Tasks : tpc[t] = "done"
    /\ analysisWg = 0
    /\ resultsClosed
    /\ \A t \in Tasks : tres[t] # Nil => allCheckData[EventOf(t)] = tres[t]
    /\ scores = calculateFinalScores(allCheckData)

\* the scores are computed although the domain task returned without a result
C3_Witness ==
  /\ hpc = "sendFinal"
  /\ tfail["domain"] = "corpusQuery"
  /\ Len(recvLog) = 4

\* C4: the numbers of the finalScores event are those of the per-task
\* results alone: the order in which the tasks completed does not enter
C4_OrderIndependent ==
  /\ Aggregated => scores = calculateFinalScores(TaskResults)
  /\ \A i \in 1..Len(Stream) :
       Stream[i].EventName = "finalScores"
         => Stream[i].Payload = calculateFinalScores(TaskResults)

\* the tasks completed in the reverse of launch order, with different impacts
C4_Witness ==
  /\ hpc = "returned"
  /\ Len(recvLog) = 5
  /\ recvLog[1].EventName = "renderedAnalysis"
  /\ recvLog[2].EventName = "textAnalysis"
  /\ recvLog[3].EventName = "executableAnalysis"
  /\ recvLog[4].EventName = "urlAnalysis"
  /\ recvLog[5].EventName = "domainAnalysis"
  /\ scores.FinalScoreNormal # scores.FinalScoreRendered

\* C5: every line on the response is written by the writer goroutine, and
\* the lines form whole frames: an event line directly followed by the data
\* line of the same event
C5_SingleWriter ==
  \A i \in 1..Len(out) :
    /\ out[i].by = "writer"
    /\ (i % 2 = 1) => out[i].part = "event"
    /\ (i % 2 = 0) => (out[i].part = "data" /\ out[i].ev = out[i - 1].ev)

\* the handler holds the next result while the writer is inside a frame
C5_Witness ==
  /\ hpc = "forward"
  /\ wpc = "data"
  /\ Len(out) = 3

\* C6: every result the handler received is written to the caller exactly
\* once, unchanged, in the order of receipt and without waiting for the other
\* tasks: while the request runs the results received are the analysis events
\* written, then the one the writer is writing, then the one the handler is
\* handing over; when the request is over all of them have been written
C6_EveryResultRelayed ==
  /\ hpc # "exited" =>
       recvLog = AnalysisStream
                   \o (IF wpc \in {"header", "data"} /\ wev.EventName \in EventNames
                       THEN << wev >> ELSE << >>)
                   \o (IF hres # NoEvent THEN << hres >> ELSE << >>)
  /\ Over => recvLog = AnalysisStream

\* C7: a task that failed internally (the corpus query in the domain task,
\* the content judgment in the text or rendered task) has, when it returns,
\* sent its own event with an error payload that adds nothing to the scores,
\* and its failure does not end the request for the other tasks
C7_FailureSurfacedAndIsolated ==
  /\ \A t \in Tasks :
       (tpc[t] = "done" /\ tfail[t] \in {"corpusQuery", "contentJudgment"})
         => (IsErrorPayload(tres[t]) /\ ContributionOf(tres[t]) = 0)
  /\ Aggregated => scores = calculateFinalScores(TaskResults)
  /\ hpc # "exited"

\* C8: when the OCR text of the rendered mail is empty, the renderedAnalysis
\* event carries an error payload, and in the closing event
\* finalScoreRendered is baseScore and finalScoreNormal is baseScore plus the
\* text result's impacts
C8_OcrEmptyReported ==
  (tpc["rendered"] = "done" /\ tfail["rendered"] = "ocrEmpty") =>
    /\ IsErrorPayload(tres["rendered"])
    /\ Aggregated =>
         /\ scores.FinalScoreRendered = scores.BaseScore
         /\ scores.FinalScoreNormal
              = scores.BaseScore + ContributionOf(tres["text"])

\* an entry of the result map as the scores should count it: nothing when it
\* is missing, else the impacts the payload carries
DomainImpact == IF allCheckData["domainAnalysis"] = Nil THEN 0
                ELSE allCheckData["domainAnalysis"].ScoreImpact

URLImpact == IF allCheckData["urlAnalysis"] = Nil THEN 0
             ELSE allCheckData["urlAnalysis"].ScoreImpact

AttachmentImpact == IF allCheckData["executableAnalysis"] = Nil THEN 0
                    ELSE allCheckData["executableAnalysis"].ScoreImpact

PathImpacts(name) ==
  IF allCheckData[name] = Nil \/ allCheckData[name].Error # "" THEN 0
  ELSE allCheckData[name].CompanyIdentification.ScoreImpact
         + allCheckData[name].CompanyVerification.ScoreImpact
         + allCheckData[name].RealismAnalysis.ScoreImpact
         + allCheckData[name].ContactMethodAnalysis.ScoreImpact

C10_CancelledTasksDegrade ==
  [][\A t \in {"text", "rendered"} :
       (cancelled /\ tpc[t] = "run" /\ tpc'[t] = "done")
         => (tres'[t] = Nil \/ IsErrorPayload(tres'[t]))]_vars

\* the handler has returned, by any of its return statements
Returned == hpc \in {"returned", "returnedEarly"}

\* C11: once the sandbox directory exists it has been removed when the
\* handler has returned, by whichever return statement and whether or not
\* the caller went away, and when it is removed no analysis task is running
C11_SandboxRemovedOnReturn ==
  /\ Returned => sandbox \in {"none", "removed"}
  /\ sandbox = "removed" => (Returned /\ \A t \in Tasks : tpc[t] # "run")

\* the caller went away mid-stream, the handler completed and the directory
\* is gone
C11_Witness ==
  /\ hpc = "returned"
  /\ cancelled
  /\ Len(recvLog) = 5
  /\ sandbox = "removed"

\* C12: when the handler has returned none of the goroutines it started is
\* still running: the writer, the goroutine closing resultsChan and the five
\* tasks have ended or were never started
C12_NoGoroutineAtReturn ==
  Returned =>
    /\ wpc \in {"idle", "done"}
    /\ cpc \in {"idle", "done"}
    /\ \A t \in Tasks : tpc[t] \in {"idle", "done"}

\* C13: with requests served side by side or one after the other, what a
\* request's tasks are given is what was parsed from that request's own
\* message: the sender domain handed to the domain task, and the bodies the
\* content tasks read
C13_OwnMessageOnly ==
  \A r \in DOMAIN rq :
    /\ rq[r].domainArg \in {"unset", DomainOf(rq[r].msg)}
    /\ rq[r].textRead \in {"unset", rq[r].msg.id}

\* a redirect resolution or a lookup of the URL task ends in this step
ResolutionEnds == uniqueURLs' # uniqueURLs

LookupEnds(u) == gpc[u].pc = "check" /\ gpc'[u].pc # "check"

\* the step leaves the shared context, the other scans and the other tasks
\* as they were
OthersUntouched(us) ==
  /\ cancelled' = cancelled
  /\ urlCtxDone' = urlCtxDone
  /\ \A v \in FinalURLs \ us : gpc'[v] = gpc[v]
  /\ \A t \in Tasks \ {"url"} : tpc'[t] = tpc[t] /\ tres'[t] = tres[t]
  /\ tpc'["url"] = tpc["url"]
  /\ verdictsChan' \in {verdictsChan} \cup
       {Append(verdictsChan, v) : v \in {gpc'[u].r : u \in us}}

\* C14: the end of one URL's redirect resolution or reputation lookup,
\* failed or not, leaves the shared context, the lookups of the other URLs
\* and the other tasks untouched, and a lookup that ends while the context
\* is live may give a verdict whatever happened to the others; once the
\* context is done (the request's context or the task's deadline) every
\* lookup still in flight ends in an error
C14_LookupFailureIsLocal ==
  [][/\ ResolutionEnds => (OthersUntouched({}) /\ gpc' = gpc)
     /\ \A u \in FinalURLs :
          LookupEnds(u) =>
            /\ OthersUntouched({u})
            /\ ctxDone => gpc'[u].r = LookupError]_vars

\* one URL's lookup failed, the other gave a verdict while the context was
\* live, and the attachment task has delivered
C14_Witness ==
  /\ gpc["x"].r = LookupError
  /\ gpc["y"].r # Nil /\ gpc["y"].r.type = "Verdict"
  /\ ~ctxDone
  /\ tpc["exec"] = "done"
  /\ tpc["domain"] = "run"

\* the largest member of a non-empty set of numbers
Largest(S) == CHOOSE x \in S : \A y \in S : y <= x

\* a category is counted when the map says so or is silent about it
Counted(key) ==
  call.enabled.nil \/ key \notin DOMAIN call.enabled.m \/ call.enabled.m[key]

\* C15: MaxScoreFor is: for the domain category, when counted, the largest
\* of the impacts of DomainExactMatch, DomainNoSimilarity and freeMailMatch
\* (30, 17, 12), not their sum; for URLs 10 and for attachments 3 when
\* counted; for the content checks 3 + 20 + 25 + 4 when the text or the
\* rendered path is counted; nothing for a category switched off. With only
\* the domain category on the result is 30
C15_MaxScoreForCategories ==
  ret.fn = "MaxScoreFor" =>
    /\ ret.value
         = (IF Counted("checkDomain") THEN Largest({30, 17, 12}) ELSE 0)
           + (IF Counted("checkUrls") THEN 10 ELSE 0)
           + (IF Counted("checkAttachments") THEN 3 ELSE 0)
           + (IF Counted("checkTextAnalysis") \/ Counted("checkRenderedAnalysis")
              THEN 3 + 20 + 25 + 4 ELSE 0)
    /\ (/\ Counted("checkDomain")
        /\ \A k \in CheckKeys \ {"checkDomain"} : ~Counted(k)) => ret.value = 30

\* only the domain category is switched on
C15_Witness ==
  /\ ret.fn = "MaxScoreFor"
  /\ ~call.enabled.nil
  /\ call.enabled.m = [k \in CheckKeys |-> k = "checkDomain"]
  /\ ret.value = 30

\* C16: a key the map does not hold counts as switched on: the result is
\* that for the map completed with the defaults (every missing key true),
\* and the nil map and the empty map give the all-enabled value
C16_AbsentMeansEnabled ==
  ret.fn = "MaxScoreFor" =>
    /\ ret.value = MaxScoreFor(MapOf(mergeChecks(call.enabled.m)))
    /\ (call.enabled.nil \/ DOMAIN call.enabled.m = {})
         => ret.value = MaxScoreFor(MapOf(DEFAULT_CHECKS))
    /\ MaxScoreFor(MapOf(DEFAULT_CHECKS)) = 95

\* the map holds only one key, set to false
C16_Witness ==
  /\ ret.fn = "MaxScoreFor"
  /\ ~call.enabled.nil
  /\ call.enabled.m = [k \in {"checkUrls"} |-> FALSE]
  /\ ret.value = 85

\* what a path's phone numbers earn: the category's impact once when there
\* is no number or when at least one validates, nothing otherwise
PhoneCredit(phones, impact) ==
  IF Len(phones) = 0 \/ \E i \in 1..Len(phones) : phones[i] THEN impact ELSE 0

PhoneCreditsOwnPath(impact) ==
  LET text == PhoneCredit(call.textPhones, impact)
      rendered == IF call.ocrEmpty THEN 0
                  ELSE PhoneCredit(call.renderedPhones, impact)
  IN /\ ret.value.TextImpact = text
     /\ ret.value.finalScoreNormal = text
     /\ ret.value.RenderedImpact = rendered
     /\ ret.value.finalScoreRendered = rendered

\* C17: on each path the phone category's impact is applied once however
\* many of the path's numbers validate, the same as when exactly one does,
\* and what a path's numbers earn goes to that path's result and score only
C17_PhoneCreditOncePerPath ==
  /\ ret.fn = "runEmailHandler" => PhoneCreditsOwnPath(PhoneImpact)
  /\ ret.fn = "streamEmailHandler"
       => PhoneCreditsOwnPath(ImpactOf("CorrectPhoneNumber"))

\* the tasks of streamEmailHandler do as C17 says
StreamTasksCreditOwnPath ==
  ret.fn = "streamEmailHandler"
    => PhoneCreditsOwnPath(ImpactOf("CorrectPhoneNumber"))

\* so does runEmailHandler as long as no rendered number validates
RunHandlerCreditsOwnPathUnlessRenderedValid ==
  (/\ ret.fn = "runEmailHandler"
   /\ \A i \in 1..Len(call.renderedPhones) : ~call.renderedPhones[i])
    => PhoneCreditsOwnPath(PhoneImpact)

\* the entries of the corpus a call is run against
CorpusEntries == {call.corpus[i] : i \in 1..Len(call.corpus)}

\* C18 as stated: a domain that is in the corpus verbatim is classified
\* DomainExactMatch, with the domain itself as the matched entry
C18_VerbatimIsExactMatch_AsStated ==
  (/\ ret.fn = "performDomainAnalysis"
   /\ call.fail = "none"
   /\ call.domain \in CorpusEntries)
    => /\ ret.sent
       /\ ret.payload.Status = "DomainExactMatch"
       /\ ret.payload.MatchedDomain = call.domain

\* C18: a domain that is in the corpus verbatim, is not a free-mail provider
\* and is its own normal form (lower-case, IDN-encoded) is classified
\* DomainExactMatch with the domain itself as the matched entry whenever the
\* count query answers; a free-mail provider is classified freeMailMatch
\* whether the corpus holds it or not
C18_VerbatimIsExactMatch ==
  (ret.fn = "performDomainAnalysis" /\ call.domain \in CorpusEntries) =>
    /\ call.domain \in trustedProviders
         => /\ ret.sent
            /\ ret.payload.Status = "freeMailMatch"
            /\ ret.payload.MatchedDomain = call.domain
    /\ (/\ call.domain \notin trustedProviders
        /\ call.fail # "count"
        /\ normalise(call.domain) = call.domain)
         => /\ ret.sent
            /\ ret.payload.Status = "DomainExactMatch"
            /\ ret.payload.ScoreImpact = 30
            /\ ret.payload.MatchedDomain = call.domain

C18_Witness ==
  /\ ret.fn = "performDomainAnalysis"
  /\ call.domain = example_com
  /\ call.corpus = << example_com, mail_com >>
  /\ ret.sent
  /\ ret.payload.Status = "DomainExactMatch"
  /\ ret.payload.MatchedDomain = example_com

\* spot values of the edit distance
LevenshteinSpotValues ==
  /\ LevenshteinDistance(examp1e_com, example_com) = 1
  /\ LevenshteinDistance(gmail_com, mail_com) = 1
  /\ LevenshteinDistance(example_com, example_com) = 0
  /\ LevenshteinDistance(<< >>, mail_com) = 8
  /\ LevenshteinDistance(Pad(17), Pad(20)) = 3
  /\ LevenshteinDistance(<< "k", "i", "t", "t", "e", "n" >>,
                         << "s", "i", "t", "t", "i", "n", "g" >>) = 3
  /\ LevenshteinDistance(bucher_de, xn_bucher_de) = 9

\* the threshold for a name of L bytes: 1 up to 11, 2 up to 15, and from 16
\* on the least whole number that is at least 0.15 * L
LengthThreshold(L) ==
  IF L <= 11 THEN 1
  ELSE IF L <= 15 THEN 2
  ELSE Least({t \in 0..L : 100 * t >= 15 * L})

\* the entries the domain is close to
CloseEntries(domain) ==
  {e \in CorpusEntries :
     LevenshteinDistance(domain, e) <= LengthThreshold(ByteLen(domain))}

\* C19 as stated: a domain that is not in the corpus verbatim and is within
\* the threshold of its length of some entry is classified
\* DomainImpersonation
C19_CloseIsImpersonation_AsStated ==
  (/\ ret.fn = "performDomainAnalysis"
   /\ call.fail = "none"
   /\ call.domain \notin CorpusEntries
   /\ CloseEntries(call.domain) # {})
    => ret.sent /\ ret.payload.Status = "DomainImpersonation"

\* C19: a domain that is not a free-mail provider, whose normal form is not
\* in the corpus and is within the threshold of its length of some
\* lower-cased entry, is classified DomainImpersonation with such an entry
\* as the matched one, whenever the queries answer; a free-mail provider is
\* classified freeMailMatch however close it is to an entry. examp1e.com
\* against example.com is DomainImpersonation of example.com
C19_CloseIsImpersonation ==
  ret.fn = "performDomainAnalysis" =>
    LET ascii == normalise(call.domain)
        close == {e \in CorpusEntries :
                    LevenshteinDistance(ascii, ToLower(e))
                      <= LengthThreshold(ByteLen(ascii))}
    IN /\ (/\ call.domain \notin trustedProviders
           /\ call.fail = "none"
           /\ ascii \notin CorpusEntries
           /\ close # {})
            => /\ ret.sent
               /\ ret.payload.Status = "DomainImpersonation"
               /\ ret.payload.ScoreImpact = 0
               /\ ret.payload.MatchedDomain \in close
       /\ (call.domain \in trustedProviders /\ close # {})
            => ret.sent /\ ret.payload.Status = "freeMailMatch"
       /\ (/\ call.domain = examp1e_com
           /\ call.fail = "none"
           /\ example_com \in CorpusEntries)
            => /\ ret.sent
               /\ ret.payload.Status = "DomainImpersonation"
               /\ ret.payload.MatchedDomain = example_com

C19_Witness ==
  /\ ret.fn = "performDomainAnalysis"
  /\ call.domain = examp1e_com
  /\ call.corpus = << example_com, mail_com >>
  /\ ret.sent
  /\ ret.payload.Status = "DomainImpersonation"
  /\ ret.payload.MatchedDomain = example_com

RowsWithin ==
  LET ascii == normalise(call.domain) IN
  {i \in 1..Len(call.corpus) :
     LevenshteinDistance(ascii, ToLower(call.corpus[i]))
       <= LengthThreshold(ByteLen(ascii))}

\* C21: when the normalised domain is not in the corpus, the matched domain
\* is the first row within the threshold, in the order the rows come back,
\* whatever closer rows follow it, and DomainNoSimilarity is the answer
\* exactly when no row is within the threshold
C21_FirstMatchWins ==
  (/\ ret.fn = "performDomainAnalysis"
   /\ call.domain \notin trustedProviders
   /\ call.fail = "none"
   /\ normalise(call.domain) \notin CorpusEntries)
    => /\ ret.sent
       /\ RowsWithin # {} =>
            /\ ret.payload.Status = "DomainImpersonation"
            /\ ret.payload.MatchedDomain = call.corpus[Least(RowsWithin)]
       /\ RowsWithin = {} =>
            /\ ret.payload.Status = "DomainNoSimilarity"
            /\ ret.payload.MatchedDomain = normalise(call.domain)

\* the second row is closer than the first, and the first is reported
C21_Witness ==
  /\ ret.fn = "performDomainAnalysis"
  /\ call.domain = Pad(14)
  /\ call.corpus = << Pad(12), Pad(13), example_com >>
  /\ call.fail = "none"
  /\ LevenshteinDistance(Pad(14), Pad(13)) < LevenshteinDistance(Pad(14), Pad(12))
  /\ ret.payload.Status = "DomainImpersonation"
  /\ ret.payload.MatchedDomain = Pad(12)

\* C22: for a sender domain on the free-mail allow-list the domain task
\* sends a domainAnalysis result with status freeMailMatch and the
\* freeMailMatch impact, and puts no query to the corpus, whatever state the
\* corpus is in
C22_FreeMailNoCorpusQuery ==
  (ret.fn = "performDomainAnalysis" /\ call.domain \in trustedProviders) =>
    /\ ret.sent
    /\ ret.payload.type = "DomainAnalysisResult"
    /\ ret.payload.Status = "freeMailMatch"
    /\ ret.payload.ScoreImpact = 12
    /\ ret.queries = << >>
    /\ ~ret.fatal

\* a free-mail sender while the corpus cannot be read
C22_Witness ==
  /\ ret.fn = "performDomainAnalysis"
  /\ call.domain = gmail_com
  /\ call.fail = "count"
  /\ ret.sent
  /\ ret.payload.Status = "freeMailMatch"
  /\ ret.queries = << >>

\* what the platform says makes a URL bad
SaysBad(malicious, score, cats) ==
  \/ malicious
  \/ score > 0
  \/ \E i \in 1..Len(cats) : cats[i] \in {"phishing", "malware"}

\* C23: every verdict checkURLs returns, from the cached search or from the
\* poll of a new scan, has finalDecision true exactly when the platform's
\* malicious flag is true, or the score is above 0, or the categories hold
\* "phishing" or "malware"
C23_FinalDecisionRule ==
  (ret.fn = "checkURLs" /\ ret.result.type = "Verdict") =>
    /\ ret.result.Report \in {"cached", "submitted"}
    /\ ret.result.Report = "cached" <=> ret.last = "hit"
    /\ ret.result.FinalDecision
         <=> SaysBad(ret.result.PlatformVerdict, ret.result.Score, ret.result.Cats)

\* a polled scan that is bad by its category alone
C23_Witness ==
  /\ ret.fn = "checkURLs"
  /\ ret.result.type = "Verdict"
  /\ ret.result.Report = "submitted"
  /\ ~ret.result.PlatformVerdict
  /\ ret.result.Score = -1
  /\ ret.result.Cats = << "benign", "malware" >>
  /\ ret.result.FinalDecision

\* how often a request of a kind has been sent
Sent(kind) == Cardinality({i \in 1..Len(ret.requests) : ret.requests[i] = kind})

\* C25: when the search for a scan of the last 7 days gives a result, the
\* verdict is made from that result and nothing is submitted or polled; a
\* scan is submitted only after a search that gave no usable result, and
\* polled only after it was submitted
C25_CachedScanShortCircuits ==
  ret.fn = "checkURLs" =>
    /\ ret.search.kind = "hit" =>
         /\ ret.pc = "returned"
         /\ ret.requests = << "search" >>
         /\ ret.result.type = "Verdict"
         /\ ret.result.Score = ret.search.r0.Score
         /\ ret.result.Cats = ret.search.r0.Categories
         /\ ret.result.PlatformVerdict = ret.search.r0.Malicious
    /\ Sent("submit") > 0 =>
         /\ ret.search.kind \in {"badStatus", "decodeError", "empty"}
         /\ Sent("submit") = 1
         /\ Len(ret.requests) >= 2
         /\ ret.requests[1] = "search" /\ ret.requests[2] = "submit"
    /\ Sent("poll") > 0 => Sent("submit") = 1
    /\ Sent("search") <= 1

\* a cached scan has given the verdict
C25_Witness ==
  /\ ret.fn = "checkURLs"
  /\ ret.search.kind = "hit"
  /\ ret.search.r0.Malicious
  /\ ret.result.type = "Verdict"
  /\ ret.result.Report = "cached"
  /\ ret.requests = << "search" >>

\* the call is in its polling loop
InPollLoop == ret.fn = "checkURLs" /\ ret.pc \in {"select", "poll"}

\* a poll has just been answered "not yet ready": the call has not returned
\* and waits for the next tick
NotReadyPollsAgain ==
  (ret.fn = "checkURLs" /\ ret'.polls = ret.polls + 1 /\ ret'.last = "notFound")
    => /\ ret'.pc = "select"
       /\ ret'.result = Nil

\* C26: after a scan is submitted the result URL is polled once per tick. A
\* "not yet ready" answer is never returned as a failure, the call goes back
\* to wait for the next tick; the loop is left on the context's cancellation
\* only when the context is done; and once the context is done the loop ends,
\* with an error
C26_PollUntilReadyOrDone ==
  /\ [][NotReadyPollsAgain]_vars
  /\ [](ret.fn = "checkURLs" =>
          /\ Sent("poll") = ret.polls
          /\ ret.result = ScanError("polling cancelled") => ctxDone
          /\ ret.result.type = "error" => ret.result.msg # "notFound")
  /\ (InPollLoop /\ ctxDone)
       ~> (ret.fn = "checkURLs" /\ ret.pc = "returned"
             /\ ret.result.type = "error")

\* the scan was not ready at the first poll and is at the second
C26_Witness ==
  /\ ret.fn = "checkURLs"
  /\ ret.requests = << "search", "submit", "poll", "poll" >>
  /\ ret.last = "ok"
  /\ ret.result.type = "Verdict"

\* the URLs of the call the platform calls bad
BadURLs ==
  {i \in 1..Len(call.scans) :
     SaysBad(call.scans[i].Malicious, call.scans[i].Score, call.scans[i].Categories)}

At(name) == {i \in 1..Len(Stream) : Stream[i].EventName = name}

\* C27: the stream holds at most one urlScanStarted, with the number of
\* final URLs as its total; every urlScanResult comes after it, there is at
\* most one per URL and never more than the total; and when the urlAnalysis
\* event is in the stream, urlScanStarted and exactly total urlScanResult
\* events stand before it
C27_ScanEventsOrdered ==
  /\ Cardinality(At("urlScanStarted")) <= 1
  /\ \A i \in At("urlScanStarted") :
       /\ Stream[i].Payload.Total = Cardinality(finalUniqueURLs)
       /\ Cardinality(At("urlScanResult")) <= Stream[i].Payload.Total
  /\ \A j \in At("urlScanResult") :
       /\ \E i \in At("urlScanStarted") : i < j
       /\ Stream[j].Payload.URL \in finalUniqueURLs
       /\ \A k \in At("urlScanResult") :
            Stream[k].Payload.URL = Stream[j].Payload.URL => k = j
  /\ \A a \in At("urlAnalysis") :
       /\ \E i \in At("urlScanStarted") :
            /\ i < a
            /\ Cardinality(At("urlScanResult")) = Stream[i].Payload.Total
       /\ \A j \in At("urlScanResult") : j < a

\* two URLs were scanned, and the domain result reached the client between
\* urlScanStarted and the last urlScanResult
C27_Witness ==
  /\ At("urlAnalysis") # {}
  /\ Cardinality(At("urlScanResult")) = 2
  /\ \E i \in At("urlScanStarted"), d \in At("domainAnalysis"),
        j \in At("urlScanResult") : i < d /\ d < j

\* how often the verdict of URL u stands in a sequence of verdicts
TimesIn(verdicts, u) ==
  Cardinality({i \in 1..Len(verdicts) : verdicts[i].Report = u})

\* each verdict a lookup has returned is once in the sequence, as returned,
\* and nothing else is
HoldsTheVerdicts(verdicts) ==
  /\ \A u \in FinalURLs :
       IF gpc[u].r.type = "Verdict"
       THEN /\ TimesIn(verdicts, u) = 1
            /\ \E i \in 1..Len(verdicts) : verdicts[i] = gpc[u].r
       ELSE TimesIn(verdicts, u) = 0
  /\ Len(verdicts) = Cardinality({u \in FinalURLs : gpc[u].r.type = "Verdict"})

\* C28: whether or not the context is cancelled while lookups are running,
\* the verdict channel never holds more than it has room for, so no
\* goroutine waits on its verdict send; every verdict a lookup returned is
\* exactly once in the channel and, when the task has sent its result,
\* exactly once in UrlVerdicts; and the wait for the scan goroutines ends
C28_VerdictsSurviveCancel ==
  /\ [](/\ Len(verdictsChan) <= Cardinality(finalUniqueURLs)
        /\ HoldsTheVerdicts(verdictsChan)
        /\ upc = "done" => HoldsTheVerdicts(tres["url"].UrlVerdicts))
  /\ (upc = "wait") ~> (upc = "done")

\* the caller went away after one lookup had returned its verdict and
\* before the other did
C28_Witness ==
  /\ cancelled
  /\ upc = "done"
  /\ gpc["x"].r.type = "Verdict"
  /\ gpc["y"].r.type = "error"
  /\ tres["url"].UrlVerdicts = << gpc["x"].r >>

\* the addresses of the candidates that are kept: they parse and do not end
\* in a low-value extension, however they are written
KeptAddresses ==
  {call.initialURLs[i].id : i \in
     {j \in 1..Len(call.initialURLs) :
        /\ call.initialURLs[j].id # "bad"
        /\ call.initialURLs[j].ext \notin {".png", ".PNG"}}}

\* C29: a lookup is started for exactly the final URLs that the kept
\* candidates resolve to, one lookup for each; the candidates are told apart
\* after trimming and unescaping; a candidate that does not resolve leaves
\* no event and no error behind, only urlScanStarted with the number of
\* lookups is sent
C29_LookupsAreDistinctFinalURLs ==
  ret.fn = "collectURLs" =>
    LET finals == {call.resolve[a] : a \in KeptAddresses} \ {""} IN
      /\ \A f \in FinalURLs : ret.lookups[f] = (IF f \in finals THEN 1 ELSE 0)
      /\ \A u \in ret.uniqueURLs : u.form = "plain"
      /\ Cardinality(ret.uniqueURLs) = Cardinality(KeptAddresses)
      /\ ret.events = << CheckResult("urlScanStarted",
                                     URLScanStartInfo(Cardinality(finals))) >>

\* two candidates redirect to the same final URL, a third one is the first
\* again with its entities escaped
C29_Witness ==
  /\ ret.fn = "collectURLs"
  /\ call.initialURLs = << [id |-> "a", form |-> "plain", ext |-> ""],
                           [id |-> "b", form |-> "plain", ext |-> ""],
                           [id |-> "a", form |-> "escaped", ext |-> ""] >>
  /\ call.resolve = [a \in {"a", "b"} |-> "x"]
  /\ ret.lookups = [f \in FinalURLs |-> IF f = "x" THEN 1 ELSE 0]

\* a candidate that does not resolve is dropped
C29_DroppedWitness ==
  /\ ret.fn = "collectURLs"
  /\ KeptAddresses = {"a", "b"}
  /\ call.resolve["a"] = "" /\ call.resolve["b"] = "y"
  /\ ret.lookups["y"] = 1 /\ ret.lookups["x"] = 0

\* C30: every task calls Done once. The counter of analysisWg is never below
\* zero and is zero once all five tasks are over; resultsChan is closed only
\* when no task is running any more; no task comes to its send with
\* resultsChan closed
C30_EachTaskSignalsOnce ==
  /\ analysisWg >= 0
  /\ (\A t \in Tasks : tpc[t] = "done") => analysisWg = 0
  /\ resultsClosed => \A t \in Tasks : tpc[t] # "run"
  /\ \A t \in Tasks : tfail[t] \notin {"sendOnClosed", "negativeCounter"}

\* with the scan switched off the same holds
C30_HoldsSwitchedOff == upc = "off" => C30_EachTaskSignalsOnce

\* the urlAnalysis result with status "Disabled", wherever it is held
DisabledResults ==
  {p \in {tres["url"], allCheckData["urlAnalysis"]} :
     p.type = "URLAnalysisResult" /\ p.Status = "Disabled"}

\* C31: with the scan switched off the urlAnalysis result has status
\* "Disabled" and a score impact of 0, and the base score computed from it
\* is the sum of the attachment and the domain impact alone
C31_DisabledAddsNothing ==
  /\ \A p \in DisabledResults : p.ScoreImpact = 0
  /\ (hpc \in {"sendFinal", "closeEvents", "waitWriter", "returned"}
        /\ DisabledResults # {})
       => scores.BaseScore
            = (IF allCheckData["executableAnalysis"].type = "ExecutableAnalysisResult"
               THEN allCheckData["executableAnalysis"].ScoreImpact ELSE 0)
              + (IF allCheckData["domainAnalysis"].type = "DomainAnalysisResult"
                 THEN allCheckData["domainAnalysis"].ScoreImpact ELSE 0)

MaxScoreEvent == CheckResult("maxScore", [type |-> "maxScore", maxScore |-> MaxScore])

Launched == \E t \in Tasks : tpc[t] # "idle"

\* the statement as written: when the tasks are launched the maxScore event
\* has been written to the response
C32_MaxScoreFirst_AsStated ==
  Launched => Len(out) >= 2 /\ SubSeq(out, 1, 2) = Frame(MaxScoreEvent)

\* C32: the first event written to the client is maxScore and no other event
\* is written before it or in between its two lines. When the tasks are
\* launched the writer has taken the maxScore event from eventChan: it has
\* written it or is writing it, and takes no other event before it has
C32_MaxScoreFirst ==
  /\ \A i \in 1..Len(out) :
       /\ i <= 2 => out[i] = Frame(MaxScoreEvent)[i]
       /\ i > 2 => out[i].ev.EventName # "maxScore"
  /\ Launched =>
       \/ Len(out) >= 2
       \/ wev = MaxScoreEvent /\ wpc \in {"header", "data", "exited"}

\* the tasks were launched before the writer had written maxScore, and an
\* analysis event has been written after it
C32_Witness ==
  /\ Len(out) >= 4
  /\ out[3].ev.EventName \in EventNames
  /\ \E t \in Tasks : tres[t] # Nil /\ out[3].ev.Payload = tres[t]

\* a percentage kept as the fraction num/den lies in [0, 100]
InPercentRange(p) == p.den > 0 /\ 0 <= p.num /\ p.num <= 100 * p.den

\* C33: whatever the five tasks delivered, a result, an error payload or
\* nothing, the scores computed from it satisfy
\* 0 <= baseScore <= finalScoreNormal <= MaxScore() and
\* 0 <= baseScore <= finalScoreRendered <= MaxScore(), and both percentages
\* lie in [0, 100]
C33_ScoresWithinRange ==
  hpc = "sendFinal" =>
    /\ 0 <= scores.BaseScore
    /\ scores.BaseScore <= scores.FinalScoreNormal
    /\ scores.FinalScoreNormal <= MaxScore
    /\ scores.BaseScore <= scores.FinalScoreRendered
    /\ scores.FinalScoreRendered <= MaxScore
    /\ scores.MaxPossibleScore = MaxScore
    /\ InPercentRange(scores.NormalPercentage)
    /\ InPercentRange(scores.RenderedPercentage)

\* the text path earns every point there is, the rendered path came back
\* with an error and the attachment result is absent
C33_Witness ==
  /\ hpc = "sendFinal"
  /\ scores.FinalScoreNormal = MaxScore
  /\ scores.NormalPercentage.num = 100 * scores.NormalPercentage.den
  /\ allCheckData["renderedAnalysis"].type = "ContentAnalysisResult"
  /\ allCheckData["renderedAnalysis"].Error # ""
  /\ scores.FinalScoreRendered = scores.BaseScore

\* nothing was delivered at all: every score is 0
C33_AbsentWitness ==
  /\ hpc = "sendFinal"
  /\ \A n \in EventNames : allCheckData[n] = Nil
  /\ scores.FinalScoreNormal = 0

\* the map of a call, nil taken as the empty map
CalledMap == IF call.enabled.nil THEN << >> ELSE call.enabled.m

\* the map with one more category switched off
SwitchedOff(m, k) ==
  [j \in DOMAIN m \cup {k} |-> IF j = k THEN FALSE ELSE m[j]]

\* C34: with all five categories enabled (named true or left out)
\* MaxScoreFor returns what MaxScore() returns over the same registry, and
\* switching one more category off never makes the result larger
C34_MaxScoresAgree ==
  ret.fn = "MaxScoreFor" =>
    /\ (\A k \in CheckKeys : isEnabled(CalledMap, k)) => ret.value = MaxScore
    /\ \A k \in CheckKeys :
         MaxScoreFor(MapOf(SwitchedOff(CalledMap, k))) <= ret.value
    /\ ret.value <= MaxScore

\* all five categories are named and enabled; switching the URL category
\* off makes the result smaller
C34_Witness ==
  /\ ret.fn = "MaxScoreFor"
  /\ ~call.enabled.nil
  /\ call.enabled.m = [k \in CheckKeys |-> TRUE]
  /\ ret.value = MaxScore
  /\ MaxScoreFor(MapOf(SwitchedOff(CalledMap, "checkUrls"))) < ret.value

\* C36: with all five checks enabled, once every result of the stream has
\* been handled the totals the page keeps, base + normal and base + rendered,
\* are finalScoreNormal and finalScoreRendered of the stream's finalScores
\* event, and these are the scores the page reports as the analysis ends
C36_ClientTotalsMatchFinal ==
  (/\ ret.fn = "handleAnalysisFlow" /\ ret.pc = "done"
   /\ \A k \in CheckKeys : shouldRender(ret.core, k))
    => /\ ret.core.currentScores.base + ret.core.currentScores.normal
            = ret.final.FinalScoreNormal
       /\ ret.core.currentScores.base + ret.core.currentScores.rendered
            = ret.final.FinalScoreRendered
       /\ ret.core.currentScores.base = ret.final.BaseScore
       /\ ret.core.shown = [normal |-> ret.final.FinalScoreNormal,
                            rendered |-> ret.final.FinalScoreRendered]
       /\ Len(ret.core.complete) = 1
       /\ ret.core.complete[1].normalScore = ret.final.FinalScoreNormal
       /\ ret.core.complete[1].renderedScore = ret.final.FinalScoreRendered

\* the text result carried an error, the domain result never came, the
\* other three results count
C36_Witness ==
  /\ ret.fn = "handleAnalysisFlow" /\ ret.pc = "done"
  /\ \A k \in CheckKeys : shouldRender(ret.core, k)
  /\ call.data["domainAnalysis"] = Nil
  /\ call.data["textAnalysis"] = ErrorContent("Failed to analyse email content.")
  /\ ret.core.currentScores.normal = 0
  /\ ret.core.currentScores.rendered > 0
  /\ ret.core.currentScores.base > 0
  /\ ret.final.FinalScoreRendered
       = ret.core.currentScores.base + ret.core.currentScores.rendered

\* the stream s handles a message in this step although another session
\* than the one it was started for is the active one
StaleRead(s) ==
  /\ ret.streams[s].pc = "reading"
  /\ ret'.streams[s].next = ret.streams[s].next + 1
  /\ ret.streams[s].session # ret.core.activeSessionId

\* C35: once another session is the active one, a message read from the
\* stream of an earlier session changes neither currentScores nor the
\* scores shown, and reports no analysis as complete
C35_StaleEventsIgnored ==
  [][\A s \in 1..MaxStreams :
       StaleRead(s) =>
         /\ ret'.core.currentScores = ret.core.currentScores
         /\ ret'.core.shown = ret.core.shown
         /\ ret'.core.complete = ret.core.complete]_vars

\* the raw message was asked for, or is about to be, for these
SilentFetches == ret.requested \cup ret.pendingImport

\* C37: startAnalysis asks for the raw message only for an account whose
\* stored status it read as "authorized", and records a message id as
\* analysed only together with such a request, in auto and in manual mode
C37_NoFetchUnlessAuthorized ==
  /\ \A q \in SilentFetches : q.seen = "authorized"
  /\ \A m \in ret.analyzedMessageIds :
       \E q \in SilentFetches : q.m = m /\ q.seen = "authorized"

\* startAnalysis has run for an opened message of an account that is not
\* authorized, after a manual Check click: the Auth control is shown for
\* the message, nothing was asked for it and its id is not recorded
C37_Witness ==
  /\ ret.analysisMode = "manual"
  /\ ret.state.status # "authorized"
  /\ ret.authUI \in MessageIds
  /\ ret.authUI \notin ret.analyzedMessageIds
  /\ \A q \in SilentFetches : q.m # ret.authUI

\* the same in auto mode, for an account that was reset in the options page
C37_ResetWitness ==
  /\ ret.analysisMode = "auto"
  /\ ret.resets > 0
  /\ ret.state.status # "authorized"
  /\ ret.authUI \in MessageIds
  /\ ret.authUI \notin ret.analyzedMessageIds
  /\ \A q \in SilentFetches : q.m # ret.authUI

\* the answer of the Gmail API whose error, if any, handleError reports:
\* the fetch with the web-flow token for a request with an address, the
\* fetch with the native token for an interactive request without one
ReportedResponse ==
  IF call.email # "" THEN call.webResponse ELSE call.nativeResponse

\* that fetch was made and no earlier step supplied the raw message
ReportedFetchMade ==
  /\ ret.fn # ""
  /\ call.tabId # 0
  /\ IF call.fn = "GET_RAW_MESSAGE"
     THEN /\ call.email # ""
          /\ getAuthToken(call.token).threw
             \/ fetchRawMessage(call.nativeResponse).threw
          /\ call.webToken.ok
     ELSE IF call.email # "" THEN call.webToken.ok ELSE call.token.ok

\* the answer is an error other than 401 and 403 whose message reads
\* "Delegation denied for <address>"
DelegationDenied(response) ==
  /\ ~response.ok
  /\ response.status \notin {"401", "403"}
  /\ response.text.json
  /\ delegationMatch(response.text.message) # {}

\* C38: when the Gmail API answers the fetch of the raw message with such
\* an error, the tab is sent EML_ERROR with error WRONG_ACCOUNT and the
\* address named in the message, and no Google API error
C38_DelegationDeniedIsWrongAccount ==
  (ReportedFetchMade /\ DelegationDenied(ReportedResponse)) =>
    /\ Len(ret.sent) = 1
    /\ ret.sent[1].type = "EML_ERROR"
    /\ ret.sent[1].error = << "WRONG_ACCOUNT" >>
    /\ ret.sent[1].actualEmail \in delegationMatch(ReportedResponse.text.message)

====
